---- MODULE Spec2Model ----
(***************************************************************************)
(* Code Archaeologist (Bajaj30/Hackday): a verification model of the React *)
(* front end (App, Tabs, Chat, DependencyGraph, Report) and of the         *)
(* ingestion pipeline of the FastAPI back end it talks to.                 *)
(*                                                                         *)
(* Strings the code inspects character by character (URLs, chat input,     *)
(* paths) are sequences of one-character strings, so that trim(), the URL  *)
(* pattern and the extension rules are computed and not assumed.           *)
(***************************************************************************)
EXTENDS Naturals, Integers, Sequences, FiniteSets, TLC

VARIABLES
    \* ---- App (App.jsx, carried in DependencyGraph.jsx lines 600-1291) ----
    repoUrl,          \* useState(''): the URL input field
    isAnalyzing,      \* useState(false)
    completedSteps,   \* useState([])
    analysisData,     \* useState(null): <<>> is null, <<d>> is the data d
    error,            \* useState(null): "null" or the message
    currentStep,      \* useState(null): "null" or a step id
    analyzePc,        \* where the running analyzeRepo() is suspended
    trimmedUrl,       \* analyzeRepo's local const trimmedUrl
    analyzeInFlight,  \* the POST /analyze awaiting its response: <<>> or <<req>>
    \* ---- Tabs ----
    activeTab,        \* useState(tabs[0].id); "none" while Tabs is not mounted
    \* ---- Chat (state of the mounted Chat instance) ----
    messages,         \* useState([])
    input,            \* useState('')
    isLoading,        \* useState(false)
    chatInFlight,     \* the mounted instance's POST /chat: <<>> or <<req>>
    chatOrphans,      \* POST /chat requests in flight whose instance was unmounted
    \* ---- validateRepoFormat applied to one input ----
    urlInput,         \* the string handed to validateRepoFormat
    urlVerdict,       \* "pending", "accepted" or "rejected"
    \* ---- DependencyGraph (the view of analysisData.dependencies) ----
    depData,          \* the prop data
    graphRendered,    \* whether the component has rendered with depData
    processedData,    \* the useMemo result: nodes, edges, connectionCounts, byType
    filter,           \* useState('all'): 'all' or an extension key
    selectedFile,     \* useState(null): <<>> is null, else the file
    \* ---- back end: one cloned repository and what is extracted from it ----
    repoFiles,        \* the files of the clone (indices into FilePool)
    filesBuilt,       \* whether the tree and the dependency nodes have been built
    file_tree,        \* AnalysisResult.file_tree
    dependencies,     \* AnalysisResult.dependencies
    treeStats,        \* FileTree: const stats, <<>> until the stats header is rendered
    reportStats,      \* Report: const fileStats, <<>> until the Report is rendered
    ai_detection,     \* AnalysisResult.ai_detection
    aiPanel,          \* AIDetection: the two percentages displayed, <<>> until rendered
    aiReport,         \* Report: the two percentages printed, <<>> until rendered
    \* ---- back end: the requests it serves and its temporary directories ----
    requests,         \* per request: where its pipeline stands and what it holds
    tempDirs,         \* the temporary clone directories on disk
    nextDir,          \* the next fresh directory name
    \* ---- the front end's requests at the back end ----
    awaited,          \* the request serving the App's POST /analyze (0: none has arrived)
    awaitedChat,      \* the request serving the Chat's POST /chat (0: none has arrived)
    \* ---- back end: one run of the Dependency Extractor over the clone ----
    exImports,        \* per file of the clone: the import tokens of its content
    exBad,            \* the file that fails, and how (stat or decode); file 0: none
    exStage,          \* per node file: pending, extracted (with its edges) or merged
    exRun,            \* 0 before the first run, then the number of the run
    exFirst,          \* the edge list of the first run, once complete
    utilsBuild,       \* what utils.py does where its documentation is silent
    \* ---- back end: the server process ----
    envKey,           \* whether GEMINI_API_KEY is set in the environment
    procState,        \* "stopped", "running" or "refused" (exited at start)
    procKey           \* whether the running process holds the credential

appVars == <<repoUrl, isAnalyzing, completedSteps, analysisData, error,
             currentStep, analyzePc, trimmedUrl, analyzeInFlight, activeTab,
             messages, input, isLoading, chatInFlight, chatOrphans>>
urlVars == <<urlInput, urlVerdict>>
graphVars == <<depData, graphRendered, processedData, filter, selectedFile>>
fileVars == <<repoFiles, filesBuilt, file_tree, dependencies, treeStats, reportStats,
              ai_detection, aiPanel, aiReport>>
reqVars == <<requests, tempDirs, nextDir>>
linkVars == <<awaited, awaitedChat>>
extractVars == <<exImports, exBad, exStage, exRun, exFirst, utilsBuild>>
procVars == <<envKey, procState, procKey>>
vars == <<appVars, urlVars, graphVars, fileVars, reqVars, linkVars, extractVars, procVars>>
\* What the handlers of one component leave alone: the other components' state.
nonAppVars == <<urlVars, graphVars, fileVars, reqVars, linkVars, extractVars, procVars>>
nonUrlVars == <<appVars, graphVars, fileVars, reqVars, linkVars, extractVars, procVars>>
nonGraphVars == <<appVars, urlVars, fileVars, reqVars, linkVars, extractVars, procVars>>
nonFileVars == <<appVars, urlVars, graphVars, reqVars, linkVars, extractVars, procVars>>
nonReqVars == <<appVars, urlVars, graphVars, fileVars, linkVars, extractVars, procVars>>

(***************************************************************************)
(* Bounds of the model.                                                    *)
(***************************************************************************)
\* The conversation is explored up to this many messages.
MaxMessages == 4
\* POST /chat requests in flight at once (the mounted instance's and orphans).
MaxChatInFlight == 2
\* The dependency data has up to this many nodes, and edges between the ids
\* 1..MaxNodes+1 (an id above the node count is the id of no node).
MaxNodes == 2
\* The dependency data has up to this many edges.
MaxEdges == 2
\* A cloned repository holds up to this many files of FilePool.
MaxFiles == 3
\* The back end serves up to this many requests, concurrently.
MaxRequests == 2

(***************************************************************************)
(* Characters and strings.                                                 *)
(***************************************************************************)
Lower == {"a", "b", "c", "d", "e", "f", "g", "h", "i", "j", "k", "l", "m",
          "n", "o", "p", "q", "r", "s", "t", "u", "v", "w", "x", "y", "z"}
Upper == {"A", "B", "C", "D", "E", "F", "G", "H", "I", "J", "K", "L", "M",
          "N", "O", "P", "Q", "R", "S", "T", "U", "V", "W", "X", "Y", "Z"}
Digit == {"0", "1", "2", "3", "4", "5", "6", "7", "8", "9"}

\* The white space and line terminators String.prototype.trim() strips. A
\* character outside ASCII (and the vertical tab) is written by its code point.
WhiteSpace ==
    {" ", "\t", "\n", "\r", "\f", "U+000B", "U+00A0", "U+1680", "U+2000", "U+2001",
     "U+2002", "U+2003", "U+2004", "U+2005", "U+2006", "U+2007", "U+2008", "U+2009",
     "U+200A", "U+2028", "U+2029", "U+202F", "U+205F", "U+3000", "U+FEFF"}

SetMin(S) == CHOOSE m \in S : \A k \in S : m <= k
SetMax(S) == CHOOSE m \in S : \A k \in S : m >= k

\* String.prototype.trim(): the string without leading and trailing white space.
Trim(s) ==
    LET inked == {i \in 1..Len(s) : s[i] \notin WhiteSpace}
    IN  IF inked = {} THEN <<>> ELSE SubSeq(s, SetMin(inked), SetMax(inked))

StartsWith(s, p) == Len(s) >= Len(p) /\ SubSeq(s, 1, Len(p)) = p
DropFirst(s, n) == SubSeq(s, n + 1, Len(s))

(***************************************************************************)
(* validateRepoFormat: the pattern                                         *)
(*   /^https?:\/\/github\.com\/[a-zA-Z0-9_-]+\/[a-zA-Z0-9_.-]+(\.git)?$/   *)
(* matched against the trimmed argument.                                   *)
(***************************************************************************)
OwnerChars == Lower \cup Upper \cup Digit \cup {"_", "-"}
NameChars == Lower \cup Upper \cup Digit \cup {"_", ".", "-"}
PatHttp == <<"h", "t", "t", "p">>
PatHostPath == <<":", "/", "/", "g", "i", "t", "h", "u", "b", ".", "c", "o", "m", "/">>
PatDotGit == <<".", "g", "i", "t">>

\* [a-zA-Z0-9_.-]+(\.git)?$ on the rest of the string
MatchNameToEnd(t) ==
    \E k \in 1..Len(t) :
        /\ \A j \in 1..k : t[j] \in NameChars
        /\ \/ k = Len(t)
           \/ DropFirst(t, k) = PatDotGit

\* [a-zA-Z0-9_-]+\/ and then the name
MatchOwnerToEnd(t) ==
    \E i \in 2..Len(t) :
        /\ t[i] = "/"
        /\ \A j \in 1..(i - 1) : t[j] \in OwnerChars
        /\ MatchNameToEnd(DropFirst(t, i))

fullUrlPattern(s) ==
    \E scheme \in {PatHttp, PatHttp \o <<"s">>} :
        /\ StartsWith(s, scheme \o PatHostPath)
        /\ MatchOwnerToEnd(DropFirst(s, Len(scheme) + Len(PatHostPath)))

validateRepoFormat(url) == fullUrlPattern(Trim(url))

(***************************************************************************)
(* App: the inputs a user can put in the URL field.                        *)
(***************************************************************************)
UrlPlain == <<"h", "t", "t", "p", "s", ":", "/", "/", "g", "i", "t", "h", "u", "b", ".", "c", "o", "m", "/", "o", "/", "r">>
UrlPadded == <<" ">> \o UrlPlain \o <<" ">>
UrlOther == <<"h", "t", "t", "p", ":", "/", "/", "g", "i", "t", "h", "u", "b", ".", "c", "o", "m", "/", "a", "/", "b", ".", "g", "i", "t">>
UrlFtp == <<"f", "t", "p", ":", "/", "/", "g", "i", "t", "h", "u", "b", ".", "c", "o", "m", "/", "x", "/", "y">>
UrlBlank == <<" ">>
\* A lone no-break space, and the plain URL followed by one.
UrlNbsp == <<"U+00A0">>
UrlPlainNbsp == UrlPlain \o <<"U+00A0">>
UrlEmpty == <<>>
TypedUrls == {UrlEmpty, UrlBlank, UrlNbsp, UrlPlain, UrlPadded, UrlPlainNbsp, UrlOther, UrlFtp}

NoError == "null"
EmptyUrlMsg == "Please enter a GitHub repository URL"
InvalidUrlMsg == "Invalid URL format. Example: https://github.com/username/repo.git"
\* The messages analyzeRepo's catch can show.
AnalysisFailedPrefix == "Analysis failed: "
FallbackMsg == "Failed to analyze repository. Please try again."
FetchFailedMsg == "Failed to fetch"
JsonParseMsg == "Unexpected token < in JSON at position 0"
BackendDetail == "Failed to clone repository"
\* String(detail) of a detail that is a list of objects (a validation error).
ObjectDetail == "[object Object]"
\* errorData.detail when errorData is null.
NullDetailMsg == "Cannot read properties of null (reading 'detail')"

NoStep == "null"
steps == <<"clone", "analyze", "docs">>

TabIds == {"overview", "docs", "debt", "onboarding", "filetree",
           "dependencies", "ai-detection", "chat"}
NoTab == "none"
FirstTab == "overview"

(***************************************************************************)
(* Chat: what can be typed, and what the back end can answer.              *)
(***************************************************************************)
QuestionHi == <<"h", "i">>
QuestionArch == <<"W", "h", "a", "t", "'", "s", " ", "t", "h", "e", " ", "m", "a", "i", "n", " ", "a", "r", "c", "h", "i", "t", "e", "c", "t", "u", "r", "e", "?">>
QuestionDeps == <<"E", "x", "p", "l", "a", "i", "n", " ", "t", "h", "e", " ", "k", "e", "y", " ", "d", "e", "p", "e", "n", "d", "e", "n", "c", "i", "e", "s">>
QuestionRun == <<"H", "o", "w", " ", "d", "o", " ", "I", " ", "r", "u", "n", " ", "t", "h", "i", "s", " ", "p", "r", "o", "j", "e", "c", "t", "?">>
QuestionParts == <<"W", "h", "a", "t", " ", "a", "r", "e", " ", "t", "h", "e", " ", "m", "a", "i", "n", " ", "c", "o", "m", "p", "o", "n", "e", "n", "t", "s", "?">>
suggestedQuestions == {QuestionArch, QuestionDeps, QuestionRun, QuestionParts}
TypedInputs == {<<>>, <<" ">>, QuestionHi}
Answers == {<<"o", "k">>}
ApologyText == <<"S", "o", "r", "r", "y", ",", " ", "I", " ", "e", "n", "c", "o", "u", "n", "t", "e", "r", "e", "d", " ", "a", "n", " ", "e", "r", "r", "o", "r", ".", " ", "P", "l", "e", "a", "s", "e", " ", "t", "r", "y", " ", "a", "g", "a", "i", "n", ".">>

\* React drops the state of a component that leaves the tree: a Chat that is
\* mounted again starts from its useState initial values, and the request of
\* the old instance stays in flight with nobody to receive its response.
ChatUnmounted ==
    /\ messages' = <<>>
    /\ input' = <<>>
    /\ isLoading' = FALSE
    /\ chatInFlight' = <<>>
    /\ chatOrphans' = chatOrphans + Len(chatInFlight)

ChatUntouched == UNCHANGED <<messages, input, isLoading, chatInFlight, chatOrphans>>

(***************************************************************************)
(* App handlers.                                                           *)
(***************************************************************************)
\* <input onChange>: disabled while isAnalyzing.
SetRepoUrl(u) ==
    /\ ~isAnalyzing
    /\ u # repoUrl
    /\ repoUrl' = u
    /\ error' = NoError
    /\ UNCHANGED <<isAnalyzing, completedSteps, analysisData, currentStep,
                   analyzePc, trimmedUrl, analyzeInFlight, activeTab>>
    /\ ChatUntouched
    /\ UNCHANGED nonAppVars

\* analyzeRepo without its format check (only the empty test is left).
AnalyzeRejection_NoFormatCheck(url) ==
    IF Trim(url) = <<>> THEN EmptyUrlMsg ELSE ""

\* The two early returns of analyzeRepo: "" when the input passes, else the error.
AnalyzeRejection(url) ==
    IF Trim(url) = <<>> THEN EmptyUrlMsg
    ELSE IF ~validateRepoFormat(Trim(url)) THEN InvalidUrlMsg
    ELSE ""

\* analyzeRepo reachable while an analysis is running (button and Enter key
\* not disabled).
AnalyzeRepo_WhileAnalyzing ==
    /\ IF AnalyzeRejection(repoUrl) # ""
       THEN /\ error' = AnalyzeRejection(repoUrl)
            /\ UNCHANGED <<isAnalyzing, completedSteps, analysisData, currentStep,
                           analyzePc, trimmedUrl, activeTab>>
            /\ ChatUntouched
       ELSE /\ trimmedUrl' = Trim(repoUrl)
            /\ isAnalyzing' = TRUE
            /\ completedSteps' = <<>>
            /\ error' = NoError
            /\ analysisData' = <<>>
            /\ currentStep' = "clone"
            /\ analyzePc' = "timer1"
            /\ activeTab' = NoTab
            /\ ChatUnmounted
    /\ UNCHANGED <<repoUrl, analyzeInFlight>>
    /\ UNCHANGED nonAppVars

\* An analyzeRepo that resets the display before it checks its input.
AnalyzeRepo_RejectClearsData ==
    /\ ~isAnalyzing
    /\ IF AnalyzeRejection(repoUrl) # ""
       THEN /\ error' = AnalyzeRejection(repoUrl)
            /\ completedSteps' = <<>>
            /\ analysisData' = <<>>
            /\ activeTab' = NoTab
            /\ ChatUnmounted
            /\ UNCHANGED <<isAnalyzing, currentStep, analyzePc, trimmedUrl>>
       ELSE /\ trimmedUrl' = Trim(repoUrl)
            /\ isAnalyzing' = TRUE
            /\ completedSteps' = <<>>
            /\ error' = NoError
            /\ analysisData' = <<>>
            /\ currentStep' = "clone"
            /\ analyzePc' = "timer1"
            /\ activeTab' = NoTab
            /\ ChatUnmounted
    /\ UNCHANGED <<repoUrl, analyzeInFlight>>
    /\ UNCHANGED nonAppVars

\* analyzeRepo up to its first await; the Analyze button and the Enter key
\* (handleKeyPress) both reach it only while isAnalyzing is false.
AnalyzeRepoApp ==
    /\ ~isAnalyzing
    /\ IF AnalyzeRejection(repoUrl) # ""
       THEN /\ error' = AnalyzeRejection(repoUrl)
            /\ UNCHANGED <<isAnalyzing, completedSteps, analysisData, currentStep,
                           analyzePc, trimmedUrl, activeTab>>
            /\ ChatUntouched
       ELSE /\ trimmedUrl' = Trim(repoUrl)
            /\ isAnalyzing' = TRUE
            /\ completedSteps' = <<>>
            /\ error' = NoError
            /\ analysisData' = <<>>
            /\ currentStep' = "clone"
            /\ analyzePc' = "timer1"
            \* tabsData becomes []: the results, Tabs and Chat leave the tree
            /\ activeTab' = NoTab
            /\ ChatUnmounted
    /\ UNCHANGED <<repoUrl, analyzeInFlight>>

\* analyzeRepo seen from the App alone.
AnalyzeRepo == AnalyzeRepoApp /\ UNCHANGED nonAppVars

\* The 2000 ms timer resolves, the step marker staying on 'clone'.
CloneTimer_KeepsCurrent ==
    /\ analyzePc = "timer1"
    /\ completedSteps' = <<"clone">>
    /\ analyzePc' = "timer2"
    /\ UNCHANGED <<repoUrl, isAnalyzing, analysisData, error, trimmedUrl,
                   analyzeInFlight, activeTab, currentStep>>
    /\ ChatUntouched
    /\ UNCHANGED nonAppVars

\* The 2000 ms timer resolves.
CloneTimer ==
    /\ analyzePc = "timer1"
    /\ completedSteps' = <<"clone">>
    /\ currentStep' = "analyze"
    /\ analyzePc' = "timer2"
    /\ UNCHANGED <<repoUrl, isAnalyzing, analysisData, error, trimmedUrl,
                   analyzeInFlight, activeTab>>
    /\ ChatUntouched
    /\ UNCHANGED nonAppVars

\* The 2500 ms timer resolves and fetch() sends POST /analyze, the 'analyze'
\* step left to be completed by the response.
AnalyzeTimer_PostBeforeMark ==
    /\ analyzePc = "timer2"
    /\ analyzeInFlight' = <<[repo |-> trimmedUrl]>>
    /\ analyzePc' = "fetch"
    /\ UNCHANGED <<repoUrl, isAnalyzing, analysisData, error, trimmedUrl, activeTab,
                   completedSteps, currentStep>>
    /\ ChatUntouched
    /\ UNCHANGED nonAppVars

\* The 2500 ms timer resolves and fetch() sends POST /analyze.
AnalyzeTimer ==
    /\ analyzePc = "timer2"
    /\ completedSteps' = <<"clone", "analyze">>
    /\ currentStep' = "docs"
    /\ analyzeInFlight' = <<[repo |-> trimmedUrl]>>
    /\ analyzePc' = "fetch"
    /\ UNCHANGED <<repoUrl, isAnalyzing, analysisData, error, trimmedUrl, activeTab>>
    /\ ChatUntouched
    /\ UNCHANGED nonAppVars

\* The JSON bodies of a response with response.ok: an analysis object, or
\* null (0, false and "" are stored as they are and are as falsy as null).
ResponseBodies == {"object", "null"}

\* response.ok and a JSON body: the body is stored as the data, whatever it
\* is. An object is represented by the repository it is the analysis of.
AnalyzeResponseOkApp(body) ==
    /\ analyzePc = "fetch"
    /\ analysisData' = IF body = "object" THEN <<[repo |-> analyzeInFlight[1].repo]>>
                                          ELSE <<>>
    /\ completedSteps' = <<"clone", "analyze", "docs">>
    /\ currentStep' = NoStep
    /\ isAnalyzing' = FALSE
    /\ analyzePc' = "idle"
    /\ trimmedUrl' = <<>>
    /\ analyzeInFlight' = <<>>
    \* tabsData = analysisData ? [...] : []; with tabs, Tabs mounts with
    \* useState(tabs[0].id)
    /\ activeTab' = IF body = "object" THEN FirstTab ELSE NoTab
    /\ UNCHANGED <<repoUrl, error>>
    /\ ChatUntouched

\* The response arrives with response.ok (seen from the App alone).
AnalyzeResponseOk ==
    \E body \in ResponseBodies : AnalyzeResponseOkApp(body) /\ UNCHANGED nonAppVars

\* The ways the try block of analyzeRepo throws: fetch() rejects or
\* response.json() of an ok response throws (an exception with its message),
\* or the response is not ok: its body is JSON null (reading its detail
\* throws), or it has a detail and a status text.
\* The detail of an error body: <<>> when the body has none or is no JSON,
\* else whether the value is truthy and the string new Error() makes of it:
\* '' is falsy; the lists [] and [''] are truthy and give the string ''.
Details ==
    {<<>>,
     <<[truthy |-> FALSE, text |-> ""]>>,
     <<[truthy |-> TRUE, text |-> BackendDetail]>>,
     <<[truthy |-> TRUE, text |-> ObjectDetail]>>,
     <<[truthy |-> TRUE, text |-> ""]>>}

AnalyzeFailures ==
    [kind : {"throws"}, message : {FetchFailedMsg, JsonParseMsg, ""},
     body : {"none"}, detail : {<<>>}, statusText : {""}]
    \cup [kind : {"not_ok"}, message : {""}, body : {"json"},
          detail : Details, statusText : {"", "Bad Gateway"}]
    \cup [kind : {"not_ok"}, message : {""}, body : {"null"},
          detail : {<<>>}, statusText : {"", "Bad Gateway"}]

\* err.message as thrown at line 685 or by fetch()/json(), then line 695:
\* err.message || 'Failed to analyze repository. Please try again.'
ErrorMessageOf(f) ==
    LET message == IF f.kind = "not_ok"
                   THEN IF f.body = "null"
                        THEN NullDetailMsg
                        ELSE IF f.detail # <<>> /\ f.detail[1].truthy
                             THEN f.detail[1].text
                             ELSE AnalysisFailedPrefix \o f.statusText
                   ELSE f.message
    IN  IF message # "" THEN message ELSE FallbackMsg

\* Every message the catch can show.
AnalysisErrors == {ErrorMessageOf(f) : f \in AnalyzeFailures}

\* fetch() rejects, the response is not ok, or its body is no JSON: the catch.
AnalyzeResponseFailApp(f) ==
    /\ analyzePc = "fetch"
    /\ error' = ErrorMessageOf(f)
    /\ completedSteps' = <<>>
    /\ currentStep' = NoStep
    /\ isAnalyzing' = FALSE
    /\ analyzePc' = "idle"
    /\ trimmedUrl' = <<>>
    /\ analyzeInFlight' = <<>>
    /\ UNCHANGED <<repoUrl, analysisData, activeTab>>
    /\ ChatUntouched

\* A catch that shows the error and sends POST /analyze again.
AnalyzeResponseFail_Retry ==
    /\ analyzePc = "fetch"
    /\ error' = FetchFailedMsg
    /\ analyzeInFlight' = <<[repo |-> trimmedUrl]>>
    /\ UNCHANGED <<repoUrl, isAnalyzing, completedSteps, analysisData, currentStep,
                   analyzePc, trimmedUrl, activeTab>>
    /\ ChatUntouched
    /\ UNCHANGED nonAppVars

\* The fetch fails or the response is not ok (seen from the App alone).
AnalyzeResponseFail ==
    \E f \in AnalyzeFailures : AnalyzeResponseFailApp(f) /\ UNCHANGED nonAppVars

(***************************************************************************)
(* Tabs: only the active tab's content is rendered, keyed by activeTab.    *)
(***************************************************************************)
TabsMounted == Len(completedSteps) = 3 /\ analysisData # <<>>

\* A tab button is clicked (Tabs.jsx): the content of the tab left is
\* unmounted.
setActiveTabApp(t) ==
    /\ TabsMounted
    /\ t # activeTab
    /\ activeTab' = t
    /\ IF activeTab = "chat" THEN ChatUnmounted ELSE ChatUntouched
    /\ UNCHANGED <<repoUrl, isAnalyzing, completedSteps, analysisData, error,
                   currentStep, analyzePc, trimmedUrl, analyzeInFlight>>

setActiveTab(t) == setActiveTabApp(t) /\ UNCHANGED nonAppVars

(***************************************************************************)
(* Chat handlers. The instance receives repoUrl={repoUrl}: the App's URL   *)
(* field state at the latest render.                                       *)
(***************************************************************************)
ChatMounted == TabsMounted /\ activeTab = "chat"

AppUntouched == UNCHANGED <<repoUrl, isAnalyzing, completedSteps, analysisData, error,
                            currentStep, analyzePc, trimmedUrl, analyzeInFlight, activeTab>>

\* <input onChange>: disabled while isLoading.
setInput(s) ==
    /\ ChatMounted
    /\ ~isLoading
    /\ s # input
    /\ input' = s
    /\ UNCHANGED <<messages, isLoading, chatInFlight, chatOrphans>>
    /\ AppUntouched
    /\ UNCHANGED nonAppVars

\* A suggested question, offered while the conversation is empty.
ClickSuggested(q) ==
    /\ ChatMounted
    /\ messages = <<>>
    /\ input' = q
    /\ UNCHANGED <<messages, isLoading, chatInFlight, chatOrphans>>
    /\ AppUntouched
    /\ UNCHANGED nonAppVars

\* A body whose history already holds the question being asked.
ChatRequest_WithQuestion ==
    [repo |-> repoUrl, question |-> input,
     history |-> Append(messages, [role |-> "user", content |-> input])]

\* The body of POST /chat as handleSendMessage builds it.
ChatRequest == [repo |-> repoUrl, question |-> input, history |-> messages]

\* handleSendMessage up to its await (send button and Enter key; both are
\* disabled while isLoading).
handleSendMessage ==
    /\ ChatMounted
    /\ ~isLoading
    /\ Trim(input) # <<>>
    /\ Len(messages) + 2 <= MaxMessages
    /\ chatOrphans + 1 <= MaxChatInFlight
    /\ messages' = Append(messages, [role |-> "user", content |-> input])
    /\ input' = <<>>
    /\ isLoading' = TRUE
    /\ chatInFlight' = <<ChatRequest>>
    /\ UNCHANGED chatOrphans
    /\ AppUntouched
    /\ UNCHANGED nonAppVars

\* response.ok and a body with a response: the answer is appended (lines
\* 41-42), then finally.
ChatResponseOkApp(a) ==
    /\ chatInFlight # <<>>
    /\ messages' = Append(messages, [role |-> "assistant", content |-> a])
    /\ isLoading' = FALSE
    /\ chatInFlight' = <<>>
    /\ UNCHANGED <<input, chatOrphans>>
    /\ AppUntouched

\* The answer arrives (seen from the front end alone).
ChatResponseOk(a) == ChatResponseOkApp(a) /\ UNCHANGED nonAppVars

\* A catch that appends nothing.
ChatResponseFail_NoMessage ==
    /\ chatInFlight # <<>>
    /\ isLoading' = FALSE
    /\ chatInFlight' = <<>>
    /\ UNCHANGED <<messages, input, chatOrphans>>
    /\ AppUntouched
    /\ UNCHANGED nonAppVars

\* The catch (lines 43-50): fetch() rejects, the response is not ok (line
\* 39), json() throws or the body is null; the fixed apology is appended.
ChatResponseFailApp ==
    /\ chatInFlight # <<>>
    /\ messages' = Append(messages, [role |-> "assistant", content |-> ApologyText])
    /\ isLoading' = FALSE
    /\ chatInFlight' = <<>>
    /\ UNCHANGED <<input, chatOrphans>>
    /\ AppUntouched

\* The request fails (seen from the front end alone).
ChatResponseFail == ChatResponseFailApp /\ UNCHANGED nonAppVars

\* The response to a request whose Chat instance is gone: its setState calls
\* reach no mounted component.
OrphanResponseApp ==
    /\ chatOrphans > 0
    /\ chatOrphans' = chatOrphans - 1
    /\ UNCHANGED <<messages, input, isLoading, chatInFlight>>
    /\ AppUntouched

OrphanResponse == OrphanResponseApp /\ UNCHANGED nonAppVars

AppInit ==
    /\ repoUrl = <<>>
    /\ isAnalyzing = FALSE
    /\ completedSteps = <<>>
    /\ analysisData = <<>>
    /\ error = NoError
    /\ currentStep = NoStep
    /\ analyzePc = "idle"
    /\ trimmedUrl = <<>>
    /\ analyzeInFlight = <<>>
    /\ activeTab = NoTab
    /\ messages = <<>>
    /\ input = <<>>
    /\ isLoading = FALSE
    /\ chatInFlight = <<>>
    /\ chatOrphans = 0

UrlIdle == urlInput = <<>> /\ urlVerdict = "pending"

\* What useMemo returns for no data (line 77).
EmptyProcessed == [nodes |-> <<>>, edges |-> <<>>, connectionCounts |-> <<>>, byType |-> <<>>]
NoDepData == [format |-> "none", nodes |-> <<>>, edges |-> <<>>, entries |-> <<>>]
\* The filter 'all'.
FilterAll == <<"a", "l", "l">>
GraphIdle ==
    /\ depData = NoDepData /\ graphRendered = FALSE /\ processedData = EmptyProcessed
    /\ filter = FilterAll /\ selectedFile = <<>>

\* No tree yet (file_tree is absent).
\* No ai_detection in the analysis data (data.ai_detection is undefined).
NoDetection == [present |-> FALSE, ai_percentage |-> <<>>, human_percentage |-> <<>>]
AiIdle == ai_detection = NoDetection /\ aiPanel = <<>> /\ aiReport = <<>>
NoTree == [name |-> <<>>, type |-> "none", path |-> <<>>, children |-> <<>>]
FilesIdle ==
    /\ repoFiles = {}
    /\ filesBuilt = FALSE
    /\ file_tree = NoTree
    /\ treeStats = <<>>
    /\ reportStats = <<>>
    /\ AiIdle
    /\ dependencies = NoDepData

\* A request slot no request has used yet.
\* endedAt is the stage the request was in when it ended, status the HTTP
\* status of its answer (0: none sent); orphan tells that the Chat whose
\* fetch waits for the answer has been unmounted.
NoRequest == [pc |-> "none", kind |-> "none", url |-> <<>>, dir |-> 0,
              sources |-> FALSE, outcome |-> "none", released |-> 0,
              endedAt |-> "none", status |-> 0, orphan |-> FALSE]
RequestsIdle ==
    /\ requests = [r \in 1..MaxRequests |-> NoRequest]
    /\ tempDirs = {}
    /\ nextDir = 1
    /\ awaited = 0
    /\ awaitedChat = 0

\* The server was started with its credential and is running.
ServerUp ==
    /\ envKey = TRUE
    /\ procState = "running"
    /\ procKey = TRUE

\* utils.py is not in the repository and two points of its behaviour are
\* told differently by what is: whether the extension is compared without
\* regard to case (section 4.2: "case-insensitive"; CODE_EXTENSIONS lists
\* both '.r' and '.R'), and whether the merge of the per-file edges drops
\* repeated edges (section 5: "a set union"; section 4.4: "without
\* deduplication").  A build of the back end is one choice for each.
UtilsBuilds == [foldsCase : BOOLEAN, mergesAsSet : BOOLEAN]

\* The build by the letter of sections 4.2 and 5.
BuildAsWorded == [foldsCase |-> TRUE, mergesAsSet |-> TRUE]

\* No extraction is running.
NoBad == [file |-> 0, kind |-> "none"]
NoExtraction ==
    /\ exImports = <<>>
    /\ exStage = <<>>
    /\ exRun = 0
    /\ exFirst = <<>>
ExtractIdle ==
    /\ NoExtraction
    /\ exBad = NoBad
    /\ utilsBuild = BuildAsWorded

Init == AppInit /\ UrlIdle /\ GraphIdle /\ FilesIdle /\ RequestsIdle /\ ExtractIdle /\ ServerUp

Next ==
    \/ \E u \in TypedUrls : SetRepoUrl(u)
    \/ AnalyzeRepo
    \/ CloneTimer
    \/ AnalyzeTimer
    \/ AnalyzeResponseOk
    \/ AnalyzeResponseFail
    \/ \E t \in TabIds : setActiveTab(t)
    \/ \E s \in TypedInputs : setInput(s)
    \/ \E q \in suggestedQuestions : ClickSuggested(q)
    \/ handleSendMessage
    \/ \E a \in Answers : ChatResponseOk(a)
    \/ ChatResponseFail
    \/ OrphanResponse

Spec == Init /\ [][Next]_vars

(***************************************************************************)
(* validateRepoFormat on its own: one input, one verdict.                  *)
(***************************************************************************)
UrlSchemes == { <<"h", "t", "t", "p", ":", "/", "/">>,
                <<"h", "t", "t", "p", "s", ":", "/", "/">>,
                <<"f", "t", "p", ":", "/", "/">>,
                <<>> }
UrlHosts == { <<"g", "i", "t", "h", "u", "b", ".", "c", "o", "m">>,
              <<"g", "i", "t", "l", "a", "b", ".", "c", "o", "m">>,
              <<"g", "i", "t", "h", "u", "b", "x", "c", "o", "m">>,
              <<"g", "i", "t", "h", "u", "b", ".", "c", "o", "m", ".", "e", "v", "i", "l", ".", "i", "o">> }
UrlOwners == { <<"o">>, <<"O", "_", "1", "-">>, <<".">>, <<".", ".">>, <<"a", ";", "b">>, <<>> }
UrlNames == { <<"r">>, <<"r", ".", "j", "s">>, <<".">>, <<".", ".">>, <<"r", ";", "l", "s">>,
              <<"$", "(", "x", ")">>, <<"a", "/", "b">>, <<"r", " ", "x">>, <<>> }
UrlSuffixes == { <<>>, <<".", "g", "i", "t">>, <<"/">>, <<".", "g", "i", "t", "/">> }
UrlPaddings == { <<>>, <<" ">>, <<"\n">>, <<"\r">>, <<"U+00A0">> }

UrlCandidates ==
    { pre \o sch \o h \o <<"/">> \o o \o <<"/">> \o n \o suf \o post :
        pre \in {<<>>, <<" ">>}, sch \in UrlSchemes, h \in UrlHosts, o \in UrlOwners,
        n \in UrlNames, suf \in UrlSuffixes, post \in UrlPaddings }

\* analyzeRepo hands validateRepoFormat the trimmed input.
ValidateUrl ==
    /\ urlVerdict = "pending"
    /\ urlVerdict' = IF validateRepoFormat(Trim(urlInput)) THEN "accepted" ELSE "rejected"
    /\ UNCHANGED urlInput
    /\ UNCHANGED nonUrlVars

\* The next input is typed.
RetypeUrl(u) ==
    /\ urlVerdict # "pending"
    /\ u # urlInput
    /\ urlInput' = u
    /\ urlVerdict' = "pending"
    /\ UNCHANGED nonUrlVars

InitUrl == AppInit /\ GraphIdle /\ FilesIdle /\ RequestsIdle /\ ExtractIdle /\ ServerUp /\ urlInput \in UrlCandidates /\ urlVerdict = "pending"

NextUrl ==
    \/ ValidateUrl
    \/ \E u \in {UrlPlain, UrlFtp} : RetypeUrl(u)

SpecUrl == InitUrl /\ [][NextUrl]_vars

(***************************************************************************)
(* What the URL rule is to guarantee, stated on the string itself.         *)
(***************************************************************************)
RECURSIVE SplitOn(_, _)
\* s.split(c)
SplitOn(s, c) ==
    IF \A i \in 1..Len(s) : s[i] # c
    THEN <<s>>
    ELSE LET i == SetMin({j \in 1..Len(s) : s[j] = c})
         IN  <<SubSeq(s, 1, i - 1)>> \o SplitOn(DropFirst(s, i), c)

ShellMetaChars == {";", "|", "&", "$", "`", "(", ")", "<", ">", " ", "\t", "\n",
                   "'", "\"", "\\", "*", "?", "!", "{", "}", "[", "]", "#", "~"}
HasShellMeta(s) == \E i \in 1..Len(s) : s[i] \in ShellMetaChars

GithubHost == <<"g", "i", "t", "h", "u", "b", ".", "c", "o", "m">>
\* scheme://host/owner/name splits on "/" into <<scheme:, "", host, owner, name>>
HasRepoShape(s) ==
    LET seg == SplitOn(s, "/")
    IN  /\ Len(seg) = 5
        /\ seg[1] \in {<<"h", "t", "t", "p", ":">>, <<"h", "t", "t", "p", "s", ":">>}
        /\ seg[2] = <<>>
        /\ seg[3] = GithubHost
        /\ seg[4] # <<>>
        /\ seg[5] # <<>>
HasTraversalSegment(s) ==
    \E i \in 1..Len(SplitOn(s, "/")) : SplitOn(s, "/")[i] \in {<<".">>, <<".", ".">>}

\* C1: validateRepoFormat accepts a string only if it is
\* http(s)://github.com/<owner>/<name>, and rejects every string with a shell
\* metacharacter, a "." or ".." segment, or another host.
C1_AcceptedUrlIsSafe ==
    urlVerdict = "accepted" =>
        /\ HasRepoShape(Trim(urlInput))
        /\ ~HasShellMeta(Trim(urlInput))
        /\ ~HasTraversalSegment(Trim(urlInput))

(***************************************************************************)
(* Claims about App, Tabs and Chat.                                        *)
(***************************************************************************)
UrlRejected(url) == Trim(url) = <<>> \/ ~validateRepoFormat(Trim(url))

\* C2: a URL that is empty after trimming or fails validation never leads to
\* a POST /analyze: the request that is sent carries the trimmed, validated
\* URL of the field, and with a rejected URL in the field no step starts an
\* analysis, the only change to the error being the rejection message.
C2_NoRequestForRejectedUrl ==
    [][ /\ (analyzeInFlight' # <<>> /\ analyzeInFlight = <<>>) =>
              /\ ~UrlRejected(repoUrl)
              /\ analyzeInFlight'[1].repo = Trim(repoUrl)
        /\ (~isAnalyzing /\ UrlRejected(repoUrl) /\ repoUrl' = repoUrl) =>
              /\ ~isAnalyzing'
              /\ analyzePc' = "idle"
              /\ analyzeInFlight' = <<>>
              /\ error' # error =>
                    error' = (IF Trim(repoUrl) = <<>> THEN EmptyUrlMsg ELSE InvalidUrlMsg)
      ]_vars

\* The rejection of ftp://github.com/x/y has been reported and nothing is in flight.
C2_Witness ==
    /\ repoUrl = UrlFtp
    /\ error = InvalidUrlMsg
    /\ analyzeInFlight = <<>>
    /\ ~isAnalyzing

\* C3: every POST /chat carries as repo the URL that was sent in the
\* POST /analyze that produced the analysis on display.
C3_ChatRepoIsAnalyzedRepo ==
    chatInFlight # <<>> =>
        /\ analysisData # <<>>
        /\ chatInFlight[1].repo = analysisData[1].repo

IsPrefix(s, t) == Len(s) <= Len(t) /\ SubSeq(t, 1, Len(s)) = s

\* C4: while the same analysis is displayed, a message once appended stays in
\* the conversation, in order, and is in the history sent with a later question.
C4_ChatHistoryMaintained ==
    [][ (analysisData # <<>> /\ analysisData' = analysisData) =>
            /\ IsPrefix(messages, messages')
            /\ (chatInFlight' # <<>> /\ chatInFlight = <<>>) =>
                  chatInFlight'[1].history = messages
      ]_vars

(***************************************************************************)
(* DependencyGraph: processedData (useMemo over the prop data).            *)
(***************************************************************************)
\* The value undefined: a property read that finds nothing.
Undefined == <<"undefined">>

\* The string 'undefined'.
UndefinedKey == <<"u", "n", "d", "e", "f", "i", "n", "e", "d">>

\* Object.prototype itself, the value of the property '__proto__' of {}.
ObjectPrototype == <<"object", "Object.prototype">>

\* A function is held as <<"function", the text String() gives it>>.
IsFunctionValue(v) == Len(v) = 2 /\ v[1] = "function"

\* obj[k]: a property key is a string: undefined becomes 'undefined', an
\* object '[object Object]' and a function its text.
KeyOf(k) ==
    IF k = Undefined THEN UndefinedKey
    ELSE IF k = ObjectPrototype THEN <<ObjectDetail>>
    ELSE IF IsFunctionValue(k) THEN <<k[2]>>
    ELSE k

\* !v for a file name: undefined and the empty string are falsy.
Falsy(v) == v = Undefined \/ v = <<>>

\* The string 'constructor'.
ConstructorKey == <<"c", "o", "n", "s", "t", "r", "u", "c", "t", "o", "r">>

\* The string '__proto__'.
ProtoKey == <<"_", "_", "p", "r", "o", "t", "o", "_", "_">>

\* The functions an object literal ({}) inherits from Object.prototype, each
\* with the text String() gives it.
ObjectPrototypeFunctions ==
    (<<"c", "o", "n", "s", "t", "r", "u", "c", "t", "o", "r">>
          :> "function Object() { [native code] }")
    @@ (<<"t", "o", "S", "t", "r", "i", "n", "g">>
          :> "function toString() { [native code] }")
    @@ (<<"t", "o", "L", "o", "c", "a", "l", "e", "S", "t", "r", "i", "n", "g">>
          :> "function toLocaleString() { [native code] }")
    @@ (<<"v", "a", "l", "u", "e", "O", "f">>
          :> "function valueOf() { [native code] }")
    @@ (<<"h", "a", "s", "O", "w", "n", "P", "r", "o", "p", "e", "r", "t", "y">>
          :> "function hasOwnProperty() { [native code] }")
    @@ (<<"i", "s", "P", "r", "o", "t", "o", "t", "y", "p", "e", "O", "f">>
          :> "function isPrototypeOf() { [native code] }")
    @@ (<<"p", "r", "o", "p", "e", "r", "t", "y", "I", "s", "E", "n", "u", "m", "e", "r", "a", "b", "l", "e">>
          :> "function propertyIsEnumerable() { [native code] }")
    @@ (<<"_", "_", "d", "e", "f", "i", "n", "e", "G", "e", "t", "t", "e", "r", "_", "_">>
          :> "function __defineGetter__() { [native code] }")
    @@ (<<"_", "_", "d", "e", "f", "i", "n", "e", "S", "e", "t", "t", "e", "r", "_", "_">>
          :> "function __defineSetter__() { [native code] }")
    @@ (<<"_", "_", "l", "o", "o", "k", "u", "p", "G", "e", "t", "t", "e", "r", "_", "_">>
          :> "function __lookupGetter__() { [native code] }")
    @@ (<<"_", "_", "l", "o", "o", "k", "u", "p", "S", "e", "t", "t", "e", "r", "_", "_">>
          :> "function __lookupSetter__() { [native code] }")

\* The key names a property that {} has without any assignment.
Inherited(k) == KeyOf(k) = ProtoKey \/ KeyOf(k) \in DOMAIN ObjectPrototypeFunctions

\* The value of an inherited property: a function, or Object.prototype itself.
InheritedValue(key) ==
    IF key = ProtoKey THEN ObjectPrototype
    ELSE <<"function", ObjectPrototypeFunctions[key]>>

DecimalDigits == <<"0", "1", "2", "3", "4", "5", "6", "7", "8", "9">>

RECURSIVE NumberToString(_)
\* String(n) of a natural number, as its characters.
NumberToString(n) ==
    IF n < 10 THEN <<DecimalDigits[n + 1]>>
    ELSE NumberToString(n \div 10) \o <<DecimalDigits[(n % 10) + 1]>>

\* node.path || node.name: the path when it is truthy, otherwise the name
\* itself, be it '' or undefined.
NodeFile(node) == IF ~Falsy(node.path) THEN node.path ELSE node.name

\* path.match(/\.[^.]+$/): from the last dot, when a character follows it.
getFileExtension(path) ==
    LET dots == {i \in 1..Len(path) : path[i] = "."}
    IN  IF dots = {} \/ SetMax(dots) = Len(path)
        THEN <<>>
        ELSE SubSeq(path, SetMax(dots), Len(path))

\* nodeMap[id] after data.nodes.forEach(node => nodeMap[node.id] = ...) on
\* the object literal nodeMap (lines 94-97): the value last assigned under
\* the key of the id; for an id no node has, what {} inherits under that key
\* or undefined.  Assigning a file name to '__proto__' stores nothing, and
\* reading '__proto__' gives Object.prototype.
NodeMapGet(nodes, id) ==
    LET key == KeyOf(id)
        hits == {i \in 1..Len(nodes) : KeyOf(nodes[i].id) = key}
    IN  IF key = ProtoKey THEN InheritedValue(ProtoKey)
        ELSE IF hits # {} THEN NodeFile(nodes[SetMax(hits)])
        ELSE IF key \in DOMAIN ObjectPrototypeFunctions THEN InheritedValue(key)
        ELSE Undefined

\* nodes.find(n => n.file === f): the index of the first such node, 0 for none
FindByFile(pnodes, f) ==
    LET hits == {i \in 1..Len(pnodes) : pnodes[i].file = f}
    IN  IF hits = {} THEN 0 ELSE SetMin(hits)

\* counts[k] = (counts[k] || 0) + n on an object literal: counts[k] finds an
\* own property or an inherited one. An inherited function is truthy and "+"
\* makes its text followed by the digits of n, a string that later additions
\* extend; the value computed for '__proto__' is a string too, and assigning
\* a string to __proto__ changes nothing.
Bump(counts, k, n) ==
    LET key == KeyOf(k)
    IN  IF key = ProtoKey
        THEN counts
        ELSE IF key \in DOMAIN ObjectPrototypeFunctions
        THEN IF key \in DOMAIN counts
             THEN [counts EXCEPT ![key] = @ \o NumberToString(n)]
             ELSE (key :> (<<ObjectPrototypeFunctions[key]>> \o NumberToString(n))) @@ counts
        ELSE IF key \in DOMAIN counts
        THEN [counts EXCEPT ![key] = @ + n]
        ELSE (key :> n) @@ counts

\* Lines 112-113: both endpoints of the edge are counted.
CountEdge(counts, sourceFile, targetFile) ==
    Bump(Bump(counts, sourceFile, 1), targetFile, 1)

\* edges.push({ from, to })
PushEdge(edges, e) == Append(edges, e)

RECURSIVE ProcessEdges(_, _, _)
\* data.edges.forEach(edge => ...) from edge i on, lines 101-116
ProcessEdges(acc, data, i) ==
    IF i > Len(data.edges) THEN acc
    ELSE
      LET edge == data.edges[i]
          sourceFile == NodeMapGet(data.nodes, edge.source)
          targetFile == NodeMapGet(data.nodes, edge.target)
          sourceNode == FindByFile(acc.nodes, sourceFile)
          nodes1 == IF sourceNode # 0 /\ ~Falsy(targetFile)
                    THEN [acc.nodes EXCEPT ![sourceNode].imports = Append(@, targetFile)]
                    ELSE acc.nodes
      IN  ProcessEdges(
            [acc EXCEPT !.nodes = nodes1,
                        !.connectionCounts = CountEdge(@, sourceFile, targetFile),
                        !.edges = PushEdge(@, [from |-> sourceFile, to |-> targetFile])],
            data, i + 1)

RECURSIVE ProcessImports(_, _, _, _)
\* imports.forEach(imp => ...) from import j on, lines 126-129
ProcessImports(acc, file, imports, j) ==
    IF j > Len(imports) THEN acc
    ELSE ProcessImports(
           [acc EXCEPT !.edges = PushEdge(@, [from |-> file, to |-> imports[j]]),
                       !.connectionCounts = Bump(@, imports[j], 1)],
           file, imports, j + 1)

RECURSIVE ProcessEntries(_, _, _)
\* Object.entries(data).forEach(([file, imports]) => ...) from entry i on, lines 120-130
ProcessEntries(acc, data, i) ==
    IF i > Len(data.entries) THEN acc
    ELSE
      LET entry == data.entries[i]
          acc1 == [acc EXCEPT
                     !.nodes = Append(@, [file |-> entry.file, imports |-> entry.imports]),
                     !.connectionCounts = Bump(@, entry.file, Len(entry.imports))]
      IN  IF ~entry.isArray
          THEN ProcessEntries(acc, data, i + 1)
          ELSE ProcessEntries(ProcessImports(acc1, entry.file, entry.imports, 1), data, i + 1)

RECURSIVE CountByType(_, _, _)
\* nodes.forEach(({ file }) => byType[ext]++) from node i on, lines 134-138
CountByType(byType, pnodes, i) ==
    IF i > Len(pnodes) THEN byType
    ELSE LET ext == IF getFileExtension(pnodes[i].file) # <<>>
                    THEN getFileExtension(pnodes[i].file)
                    ELSE <<".", "o", "t", "h", "e", "r">>
         IN  CountByType(Bump(byType, ext, 1), pnodes, i + 1)

\* getFileExtension(undefined) is a TypeError (path.match): a node with
\* neither a truthy path nor a name makes the useMemo body throw, at line 90
\* or, when the node has a type, at line 136.
processedDataThrows(data) ==
    /\ data.format = "graph"
    /\ \E i \in 1..Len(data.nodes) : NodeFile(data.nodes[i]) = Undefined

\* The useMemo body, lines 76-141, when it does not throw.
processedDataOf(data) ==
    IF data.format = "none" THEN EmptyProcessed
    ELSE
      LET start == [nodes |-> IF data.format = "graph"
                              THEN [i \in 1..Len(data.nodes) |->
                                      [file |-> NodeFile(data.nodes[i]), imports |-> <<>>]]
                              ELSE <<>>,
                    edges |-> <<>>, connectionCounts |-> <<>>, byType |-> <<>>]
          done == IF data.format = "graph"
                  THEN ProcessEdges(start, data, 1)
                  ELSE ProcessEntries(start, data, 1)
      IN  [done EXCEPT !.byType = CountByType(<<>>, done.nodes, 1)]

\* Line 161: with no node (no key) the view shows "No dependency data available".
GraphShown(data) ==
    \/ data.format = "graph" /\ Len(data.nodes) > 0
    \/ data.format = "legacy" /\ Len(data.entries) > 0

\* Report, line 489: the line "n modules with m internal dependencies" is
\* rendered when data.dependencies.nodes exists and is not empty.
ReportDependenciesShown(data) == data.format = "graph" /\ Len(data.nodes) > 0

\* Report, line 497: data.dependencies.edges?.length || 0 on the line that is
\* shown, <<>> when no line is rendered.
ReportDependencyCount(data) ==
    IF ReportDependenciesShown(data) THEN <<Len(data.edges)>> ELSE <<>>
\* Report: depStats = data.dependencies?.nodes?.length || 0
depStats(data) == IF data.format = "graph" THEN Len(data.nodes) ELSE 0

(***************************************************************************)
(* The dependency data the view is given.                                  *)
(***************************************************************************)
\* The id of a node is held as the property key it makes (1 and '1' are the
\* same key).
NodeId(i) == NumberToString(i)

NodePool == <<
    [id |-> NodeId(1), path |-> <<"a", ".", "p", "y">>, name |-> <<"a", ".", "p", "y">>],
    [id |-> NodeId(2), path |-> <<"s", "/", "b", ".", "j", "s">>, name |-> <<"b", ".", "j", "s">>],
    [id |-> NodeId(3), path |-> <<>>, name |-> <<"M", "a", "k", "e">>],
    [id |-> NodeId(4), path |-> <<"c", ".", "p", "y">>, name |-> <<"c", ".", "p", "y">>],
    [id |-> NodeId(5), path |-> <<"d", ".", "t", "s">>, name |-> <<"d", ".", "t", "s">>] >>

\* Edge lists over the positions of the nodes and one position more (an id
\* no node has).
EdgeLists ==
    UNION { [1..n -> [source : 1..(MaxNodes + 1), target : 1..(MaxNodes + 1)]] : n \in 0..MaxEdges }

\* The edges with the ids of the nodes at their positions.
IdEdges(edgeList) ==
    [i \in 1..Len(edgeList) |->
        [source |-> NodeId(edgeList[i].source), target |-> NodeId(edgeList[i].target)]]

GraphData(k, edgeList) ==
    [format |-> "graph", nodes |-> SubSeq(NodePool, 1, k), edges |-> IdEdges(edgeList),
     entries |-> <<>>]

\* The same graph in the legacy format { file: [imports] }: one key per node,
\* holding the files its edges point to.
LegacyData(k, edgeList) ==
    [format |-> "legacy", nodes |-> <<>>, edges |-> <<>>,
     entries |-> [i \in 1..k |->
        LET Mine(e) == e.source = i
            mine == SelectSeq(edgeList, Mine)
        IN  [file |-> NodeFile(NodePool[i]), isArray |-> TRUE,
             imports |-> [j \in 1..Len(mine) |-> NodeFile(NodePool[mine[j].target])]]]]

\* A node with neither path nor name.
NamelessData ==
    [format |-> "graph", nodes |-> <<[id |-> NodeId(1), path |-> Undefined, name |-> Undefined]>>,
     edges |-> <<>>, entries |-> <<>>]

\* One file whose path is the string 'undefined'.
UndefinedNamedData(edgeList) ==
    [format |-> "graph",
     nodes |-> <<[id |-> NodeId(1), path |-> UndefinedKey, name |-> UndefinedKey]>>,
     edges |-> IdEdges(edgeList), entries |-> <<>>]

\* One file whose path is the name of a property of Object.prototype.
InheritedNamedData(key, edgeList) ==
    [format |-> "graph", nodes |-> <<[id |-> NodeId(1), path |-> key, name |-> key]>>,
     edges |-> IdEdges(edgeList), entries |-> <<>>]

\* Two files, the first with the name of a property of Object.prototype as
\* its id.
InheritedIdData(key, edgeList) ==
    LET IdAt(i) == IF i = 1 THEN key ELSE NodeId(i)
    IN  [format |-> "graph",
         nodes |-> <<[NodePool[1] EXCEPT !.id = key], NodePool[2]>>,
         edges |-> [i \in 1..Len(edgeList) |->
                      [source |-> IdAt(edgeList[i].source), target |-> IdAt(edgeList[i].target)]],
         entries |-> <<>>]

\* Two files, the second with the empty string as its path and its name.
EmptyNamedData(edgeList) ==
    [format |-> "graph",
     nodes |-> <<NodePool[1], [id |-> NodeId(2), path |-> <<>>, name |-> <<>>]>>,
     edges |-> IdEdges(edgeList), entries |-> <<>>]

\* The data with files and ids that are no property of Object.prototype and
\* not empty.
PlainInputs(lists) ==
    {NoDepData, NamelessData}
    \cup { UndefinedNamedData(el) : el \in lists }
    \cup { InheritedNamedData(key, el) : key \in {ConstructorKey, ProtoKey}, el \in lists }
    \cup { GraphData(k, el) : k \in 0..MaxNodes, el \in lists }
    \cup UNION { { LegacyData(k, el) :
                      el \in {x \in lists : \A i \in 1..Len(x) : x[i].source <= k} } :
                  k \in 0..MaxNodes }

\* Edge lists over the positions of two nodes and one position more.
PairEdgeLists ==
    UNION { [1..n -> [source : 1..3, target : 1..3]] : n \in 0..MaxEdges }

DepInputs(lists) ==
    PlainInputs(lists)
    \cup { InheritedIdData(key, el) : key \in {ConstructorKey, ProtoKey}, el \in PairEdgeLists }
    \cup { EmptyNamedData(el) : el \in PairEdgeLists }

\* The component renders: useMemo computes processedData from data.
\* When the body throws, nothing of the component is rendered.
RenderDependencyGraph ==
    /\ ~graphRendered
    /\ IF processedDataThrows(depData)
       THEN UNCHANGED <<processedData, graphRendered>>
       ELSE /\ processedData' = processedDataOf(depData)
            /\ graphRendered' = TRUE
    /\ UNCHANGED <<depData, filter, selectedFile>>
    /\ UNCHANGED nonGraphVars

InitGraph ==
    /\ AppInit /\ UrlIdle /\ FilesIdle /\ RequestsIdle /\ ExtractIdle /\ ServerUp
    /\ depData \in DepInputs(EdgeLists)
    /\ graphRendered = FALSE
    /\ processedData = EmptyProcessed
    /\ filter = FilterAll
    /\ selectedFile = <<>>

NextGraph == RenderDependencyGraph

SpecGraph == InitGraph /\ [][NextGraph]_vars

(***************************************************************************)
(* Claims about the dependency graph the view builds.                      *)
(***************************************************************************)
FilesOf(p) == {p.nodes[i].file : i \in 1..Len(p.nodes)}

\* C5: no dangling edges: in the graph the view builds and shows, every edge
\* recorded or counted has a source and a target among the nodes.
C5_NoDanglingEdges ==
    (graphRendered /\ GraphShown(depData)) =>
        /\ \A i \in 1..Len(processedData.edges) :
              /\ processedData.edges[i].from \in FilesOf(processedData)
              /\ processedData.edges[i].to \in FilesOf(processedData)
        /\ DOMAIN processedData.connectionCounts \subseteq FilesOf(processedData)

\* connectionCount={processedData.connectionCounts[file] || 0}
\* An own property first, then what {} inherits (a truthy value, so "|| 0"
\* does not apply), then 0.
ConnectionCount(p, f) ==
    IF KeyOf(f) \in DOMAIN p.connectionCounts THEN p.connectionCounts[KeyOf(f)]
    ELSE IF Inherited(f) THEN InheritedValue(KeyOf(f))
    ELSE 0

OutDegree(p, f) == Cardinality({i \in 1..Len(p.edges) : p.edges[i].from = f})
InDegree(p, f) == Cardinality({i \in 1..Len(p.edges) : p.edges[i].to = f})

RECURSIVE SumOver(_, _)
SumOver(f, keys) ==
    IF keys = {} THEN 0
    ELSE LET k == CHOOSE x \in keys : TRUE IN f[k] + SumOver(f, keys \ {k})

\* The count of every node is a number, its degree in the edges built by the
\* view and, for the nodes/edges format, in the edges received, and the
\* table holds numbers that sum to twice the number of edges.
CountIsDegree ==
        /\ \A i \in 1..Len(processedData.nodes) :
              LET f == processedData.nodes[i].file
              IN  /\ ~Inherited(f)
                  /\ ConnectionCount(processedData, f)
                        = InDegree(processedData, f) + OutDegree(processedData, f)
        /\ depData.format = "graph" =>
              \A i \in 1..Len(depData.nodes) :
                  /\ ~Inherited(NodeFile(depData.nodes[i]))
                  /\ ConnectionCount(processedData, NodeFile(depData.nodes[i]))
                    = Cardinality({j \in 1..Len(depData.edges) :
                                      depData.edges[j].source = depData.nodes[i].id})
                      + Cardinality({j \in 1..Len(depData.edges) :
                                      depData.edges[j].target = depData.nodes[i].id})
        /\ \A k \in DOMAIN processedData.connectionCounts : ~Inherited(k)
        /\ SumOver(processedData.connectionCounts, DOMAIN processedData.connectionCounts)
              = 2 * Len(processedData.edges)

\* C6: the connection count of every node is its in-degree plus its
\* out-degree in the edge list (every occurrence of an edge is counted, a
\* self-import twice), in the edges built by the view and, for the
\* nodes/edges format, in the edges received; the counts of the table sum to
\* twice the number of edges.
C6_ConnectionCountIsDegree == graphRendered => CountIsDegree

\* The count is the degree in every graph that has no file named 'undefined'
\* or as a property of Object.prototype, and no such name as an id.
C6_DegreeUnlessNamedUndefined ==
    (/\ graphRendered
     /\ \A f \in FilesOf(processedData) : f # UndefinedKey /\ ~Inherited(f)
     /\ \A i \in 1..Len(depData.nodes) : ~Inherited(depData.nodes[i].id))
        => CountIsDegree

Occurrences(seq, x) == Cardinality({i \in 1..Len(seq) : seq[i] = x})

RECURSIVE TotalImports(_, _)
TotalImports(entries, i) ==
    IF i > Len(entries) THEN 0
    ELSE (IF entries[i].isArray THEN Len(entries[i].imports) ELSE 0) + TotalImports(entries, i + 1)

\* The edges received that lead from the node at s to the node at t.
EdgesBetween(s, t) ==
    {j \in 1..Len(depData.edges) :
        /\ depData.edges[j].source = depData.nodes[s].id
        /\ depData.edges[j].target = depData.nodes[t].id}

\* The ends of the edges received that lie at the node at s.
EdgeEndsAt(s) ==
    Cardinality({j \in 1..Len(depData.edges) : depData.edges[j].source = depData.nodes[s].id})
    + Cardinality({j \in 1..Len(depData.edges) : depData.edges[j].target = depData.nodes[s].id})

\* Every edge received is kept: k edges from one node to another give k
\* entries in the source's imports, each edge adds one to the count of each
\* of its two nodes (the count of a node is a number, the number of edge
\* ends at it), the view holds as many edges as it received (one per import
\* in the legacy format), and the Report's number of internal dependencies is
\* the length of the edge list, on the line it renders for a graph with nodes.
EdgesKept ==
    /\ depData.format = "graph" =>
          /\ Len(processedData.edges) = Len(depData.edges)
          /\ ReportDependenciesShown(depData) =>
                ReportDependencyCount(depData) = <<Len(depData.edges)>>
          /\ \A s, t \in 1..Len(depData.nodes) :
                Occurrences(processedData.nodes[s].imports, NodeFile(depData.nodes[t]))
                    = Cardinality(EdgesBetween(s, t))
          /\ \A s \in 1..Len(depData.nodes) :
                /\ ~Inherited(NodeFile(depData.nodes[s]))
                /\ ConnectionCount(processedData, NodeFile(depData.nodes[s])) = EdgeEndsAt(s)
    /\ depData.format = "legacy" =>
          Len(processedData.edges) = TotalImports(depData.entries, 1)

\* C7: edges are not deduplicated: the view keeps one edge per edge received
\* (per import, in the legacy format), k edges from one node to another give
\* k entries in the source's imports and add k to both connection counts,
\* and the Report's number of internal dependencies is the length of the
\* edge list.
C7_EdgesNotDeduplicated == graphRendered => EdgesKept

\* Every edge is kept in every graph whose files have a name and whose names
\* and ids are neither 'undefined' nor a property of Object.prototype.
C7_KeptForPlainNames ==
    (/\ graphRendered
     /\ \A f \in FilesOf(processedData) : f # <<>> /\ f # UndefinedKey /\ ~Inherited(f)
     /\ \A i \in 1..Len(depData.nodes) : ~Inherited(depData.nodes[i].id))
        => EdgesKept

\* Two edges with the same source and target, between two nodes, were
\* processed and are both kept.
C7_TwoEdgesKept ==
    /\ graphRendered
    /\ depData = GraphData(2, <<[source |-> 1, target |-> 2], [source |-> 1, target |-> 2]>>)
    /\ Len(processedData.edges) = 2
    /\ Len(processedData.nodes[1].imports) = 2
    /\ ReportDependencyCount(depData) = <<2>>

\* Two edges from a.py to the file without a name: both are kept and
\* counted, and a.py has no import.
C7_EdgesToNamelessFile ==
    /\ graphRendered
    /\ depData = EmptyNamedData(<<[source |-> 1, target |-> 2], [source |-> 1, target |-> 2]>>)
    /\ Len(processedData.edges) = 2
    /\ ConnectionCount(processedData, NodeFile(depData.nodes[1])) = 2
    /\ processedData.nodes[1].imports = <<>>

(***************************************************************************)
(* Back end: the File Classifier, the File-Tree Builder and the node set   *)
(* of the Dependency Extractor (utils.py), over one cloned repository.     *)
(* The extension and directory lists are those the project documents; the  *)
(* classifier and the traversal follow sections 4.2 to 4.4 of the          *)
(* specification.                                                          *)
(***************************************************************************)
\* CODE_EXTENSIONS, the "Supported File Types".
CODE_EXTENSIONS == {
    <<".", "p", "y">>, <<".", "j", "s">>, <<".", "j", "s", "x">>, <<".", "t", "s">>,
    <<".", "t", "s", "x">>, <<".", "j", "a", "v", "a">>, <<".", "g", "o">>, <<".", "r", "s">>,
    <<".", "r", "b">>, <<".", "p", "h", "p">>, <<".", "c", "p", "p">>, <<".", "c">>,
    <<".", "h">>, <<".", "h", "p", "p">>, <<".", "h", "t", "m", "l">>, <<".", "c", "s", "s">>,
    <<".", "s", "c", "s", "s">>, <<".", "j", "s", "o", "n">>, <<".", "y", "a", "m", "l">>, <<".", "y", "m", "l">>,
    <<".", "m", "d">>, <<".", "i", "p", "y", "n", "b">>, <<".", "r">>, <<".", "R">>,
    <<".", "j", "l">> }

EXCLUDE_DIRS == {
    <<"n", "o", "d", "e", "_", "m", "o", "d", "u", "l", "e", "s">>, <<".", "g", "i", "t">>, <<"_", "_", "p", "y", "c", "a", "c", "h", "e", "_", "_">>,
    <<"v", "e", "n", "v">>, <<"e", "n", "v">>, <<".", "v", "e", "n", "v">>,
    <<"d", "i", "s", "t">>, <<"b", "u", "i", "l", "d">>, <<"t", "a", "r", "g", "e", "t">>,
    <<".", "i", "d", "e", "a">>, <<".", "v", "s", "c", "o", "d", "e">>, <<"c", "o", "v", "e", "r", "a", "g", "e">> }

AlphabetLower == <<"a", "b", "c", "d", "e", "f", "g", "h", "i", "j", "k", "l", "m", "n", "o", "p", "q", "r", "s", "t", "u", "v", "w", "x", "y", "z">>
AlphabetUpper == <<"A", "B", "C", "D", "E", "F", "G", "H", "I", "J", "K", "L", "M", "N", "O", "P", "Q", "R", "S", "T", "U", "V", "W", "X", "Y", "Z">>
ToLowerChar(c) ==
    IF c \in Upper THEN AlphabetLower[CHOOSE i \in 1..26 : AlphabetUpper[i] = c] ELSE c
ToLower(s) == [i \in 1..Len(s) |-> ToLowerChar(s[i])]

\* The extension of a file name: from its last dot, unless the name starts
\* or ends with that dot.
Suffix(name) ==
    LET dots == {i \in 1..Len(name) : name[i] = "."}
    IN  IF dots = {} \/ SetMax(dots) = 1 \/ SetMax(dots) = Len(name)
        THEN <<>>
        ELSE SubSeq(name, SetMax(dots), Len(name))

\* The extension rule: the extension is in CODE_EXTENSIONS, compared as the
\* build compares it (without regard to case, or as written).
IsSourceFile(name) ==
    IF utilsBuild.foldsCase
    THEN ToLower(Suffix(name)) \in {ToLower(x) : x \in CODE_EXTENSIONS}
    ELSE Suffix(name) \in CODE_EXTENSIONS

LastSegment(path) == path[Len(path)]

\* The directory rule: no segment of the path is an excluded directory name.
IsExcluded(path) == \E j \in 1..Len(path) : path[j] \in EXCLUDE_DIRS

\* The File Classifier: both rules pass.
Classify(path) == ~IsExcluded(path) /\ IsSourceFile(LastSegment(path))

\* The files a cloned repository may hold, each a sequence of path segments.
FilePool == <<
    <<<<"a", ".", "p", "y">>>>,
    <<<<"b", ".", "P", "Y">>>>,
    <<<<"n", "o", "d", "e", "_", "m", "o", "d", "u", "l", "e", "s">>, <<"x", ".", "j", "s">>>>,
    <<<<"s", "r", "c">>, <<"u", "t", "i", "l", ".", "j", "s">>>>,
    <<<<"d", "a", "t", "a", ".", "b", "i", "n">>>>,
    <<<<"M", "a", "k", "e", "f", "i", "l", "e">>>>,
    <<<<"A", "p", "p", ".", "c", "s">>>>,
    <<<<"s", "r", "c">>, <<"b", "u", "i", "l", "d">>, <<"o", ".", "j", "s">>>>,
    <<<<"s", "r", "c">>, <<"i", "n", "d", "e", "x", ".", "j", "s">>>> >>

RECURSIVE JoinPath(_)
\* the segments joined with "/"
JoinPath(segs) ==
    IF Len(segs) = 0 THEN <<>>
    ELSE IF Len(segs) = 1 THEN segs[1]
    ELSE segs[1] \o <<"/">> \o JoinPath(Tail(segs))

RECURSIVE OrderedNames(_, _)
\* The entries of a directory, in directory order: the names at depth d of
\* the files under it, by first occurrence.
OrderedNames(under, d) ==
    IF under = {} THEN <<>>
    ELSE LET first == FilePool[SetMin(under)][d]
         IN  <<first>> \o OrderedNames({i \in under : FilePool[i][d] # first}, d)

RECURSIVE TreeChildren(_, _), TreeChildrenFrom(_, _, _, _)
\* build_tree on the directory `prefix`: its children after filtering.
TreeChildren(prefix, files) ==
    LET d == Len(prefix) + 1
        under == {i \in files : Len(FilePool[i]) >= d /\ SubSeq(FilePool[i], 1, d - 1) = prefix}
    IN  TreeChildrenFrom(prefix, files, OrderedNames(under, d), 1)

\* The entries names[j..] of the directory, one after the other (depth
\* first): a directory is kept with the accepted content beneath it, a file
\* when the classifier accepts its path.
TreeChildrenFrom(prefix, files, names, j) ==
    IF j > Len(names) THEN <<>>
    ELSE
      LET n == names[j]
          d == Len(prefix) + 1
          isDir == \E i \in files :
                      /\ Len(FilePool[i]) > d
                      /\ SubSeq(FilePool[i], 1, d) = prefix \o <<n>>
          kids == TreeChildren(prefix \o <<n>>, files)
          node == IF isDir
                  THEN IF kids = <<>>
                       THEN <<>>
                       ELSE <<[name |-> n, type |-> "folder",
                               path |-> JoinPath(prefix \o <<n>>), children |-> kids]>>
                  ELSE IF Classify(prefix \o <<n>>)
                       THEN <<[name |-> n, type |-> "file",
                               path |-> JoinPath(prefix \o <<n>>), children |-> <<>>]>>
                       ELSE <<>>
      IN  node \o TreeChildrenFrom(prefix, files, names, j + 1)

RootName == <<"r", "o", "o", "t">>
\* get_file_tree(repo_path): the entries whose stat fails are skipped.
get_file_tree(files, statFailed) ==
    [name |-> RootName, type |-> "folder", path |-> <<>>,
     children |-> TreeChildren(<<>>, files \ statFailed)]

RECURSIVE FilePathsOf(_), FilePathsOfAll(_, _)
\* The paths of the file nodes of a tree, in traversal order.
FilePathsOf(node) ==
    IF node.type = "file" THEN <<node.path>> ELSE FilePathsOfAll(node.children, 1)
FilePathsOfAll(children, j) ==
    IF j > Len(children) THEN <<>>
    ELSE FilePathsOf(children[j]) \o FilePathsOfAll(children, j + 1)

RECURSIVE FilteredPaths(_)
\* The filtered file set: the paths of the files the classifier accepts, in
\* the order of the clone.
FilteredPaths(files) ==
    IF files = {} THEN <<>>
    ELSE LET i == SetMin(files)
         IN  (IF Classify(FilePool[i]) THEN <<JoinPath(FilePool[i])>> ELSE <<>>)
             \o FilteredPaths(files \ {i})

RECURSIVE SourcePaths(_)
\* The paths of the files with an accepted extension, wherever they lie.
SourcePaths(files) ==
    IF files = {} THEN <<>>
    ELSE LET i == SetMin(files)
         IN  (IF IsSourceFile(LastSegment(FilePool[i])) THEN <<JoinPath(FilePool[i])>> ELSE <<>>)
             \o SourcePaths(files \ {i})

\* An extractor that applies the extension rule alone.
extract_dependencies_NoDenyList(files) ==
    LET paths == SourcePaths(files)
    IN  [format |-> "graph",
         nodes |-> [i \in 1..Len(paths) |-> [id |-> paths[i], path |-> paths[i], name |-> paths[i]]],
         edges |-> <<>>, entries |-> <<>>]

\* extract_dependencies(repo_path): one node per file of the filtered file
\* set, before any edge is extracted.
extract_dependencies(files) ==
    LET paths == FilteredPaths(files)
    IN  [format |-> "graph",
         nodes |-> [i \in 1..Len(paths) |-> [id |-> paths[i], path |-> paths[i], name |-> paths[i]]],
         edges |-> <<>>, entries |-> <<>>]

(***************************************************************************)
(* Report: the statistics it prints from the analysis data.                *)
(***************************************************************************)
RECURSIVE countFiles(_), countFilesAll(_, _)
\* Report.countFiles(node)
countFiles(node) ==
    IF node.type = "none" THEN [files |-> 0, folders |-> 0]
    ELSE IF node.type = "file" THEN [files |-> 1, folders |-> 0]
    ELSE LET kids == countFilesAll(node.children, 1)
         IN  [files |-> kids.files, folders |-> 1 + kids.folders]
\* node.children.forEach(child => ...) from child j on
countFilesAll(children, j) ==
    IF j > Len(children) THEN [files |-> 0, folders |-> 0]
    ELSE LET a == countFiles(children[j])
             b == countFilesAll(children, j + 1)
         IN  [files |-> a.files + b.files, folders |-> a.folders + b.folders]

\* The entries whose stat fails.
StatFailed == IF exBad.kind = "stat" THEN {exBad.file} ELSE {}

\* The back end builds the tree and the dependency nodes of the clone, both
\* with the one classifier; the tree builder skips an entry whose stat fails.
\* They are new analysis data: what the views showed of the data before is
\* not on display any more.
BuildStructure ==
    /\ ~filesBuilt
    /\ file_tree' = get_file_tree(repoFiles, StatFailed)
    /\ dependencies' = extract_dependencies(repoFiles)
    /\ filesBuilt' = TRUE
    /\ treeStats' = <<>>
    /\ reportStats' = <<>>
    /\ UNCHANGED <<repoFiles, ai_detection, aiPanel, aiReport>>
    /\ UNCHANGED nonFileVars

\* The stat failures a clone may meet: none, or one of its entries.
StatFailures(files) == {NoBad} \cup {[file |-> f, kind |-> "stat"] : f \in files}

InitFiles ==
    /\ AppInit /\ UrlIdle /\ GraphIdle /\ RequestsIdle /\ ServerUp
    /\ NoExtraction
    /\ utilsBuild \in UtilsBuilds
    /\ repoFiles \in {S \in SUBSET (1..Len(FilePool)) : Cardinality(S) <= MaxFiles}
    /\ exBad \in StatFailures(repoFiles)
    /\ filesBuilt = FALSE
    /\ file_tree = NoTree
    /\ treeStats = <<>>
    /\ reportStats = <<>>
    /\ AiIdle
    /\ dependencies = NoDepData

NextFiles == BuildStructure

SpecFiles == InitFiles /\ [][NextFiles]_vars

(***************************************************************************)
(* Claims about the file classifier and the two structures built with it.  *)
(***************************************************************************)
SameIgnoringCase(a, b) ==
    Len(a) = Len(b) /\ \A j \in 1..Len(a) : ToLowerChar(a[j]) = ToLowerChar(b[j])

\* The extension of the path is in the allow-list, whatever its case.
ExtensionAllowed(path) ==
    \E x \in CODE_EXTENSIONS : SameIgnoringCase(Suffix(LastSegment(path)), x)

\* The extension of the path is in the allow-list as it is written.
ExtensionListed(path) == \E x \in CODE_EXTENSIONS : Suffix(LastSegment(path)) = x

\* The extension rule as the build applies it.
ExtensionAccepted(path) ==
    IF utilsBuild.foldsCase THEN ExtensionAllowed(path) ELSE ExtensionListed(path)

NoDeniedSegment(path) == \A j \in 1..Len(path) : path[j] \notin EXCLUDE_DIRS

DependencyPaths == {dependencies.nodes[i].path : i \in 1..Len(dependencies.nodes)}
TreePaths == {FilePathsOf(file_tree)[i] : i \in 1..Len(FilePathsOf(file_tree))}

\* The files of the clone that are accepted and whose stat fails.
SkippedByStat == {i \in StatFailed : JoinPath(FilePool[i]) \in DependencyPaths}

DotBin == <<".", "b", "i", "n">>
NodeModules == <<"n", "o", "d", "e", "_", "m", "o", "d", "u", "l", "e", "s">>

\* C9 as stated: a file is included if and only if its extension, compared
\* without regard to case, is in the allow-list and no segment of its path
\* is in the directory deny-list; a file with no extension or with .bin, and
\* every file below node_modules, is in neither structure.
C9_ClassifierRule ==
    filesBuilt =>
        \A i \in repoFiles :
            /\ JoinPath(FilePool[i]) \in DependencyPaths
                  <=> (ExtensionAllowed(FilePool[i]) /\ NoDeniedSegment(FilePool[i]))
            /\ i \notin StatFailed =>
                  (JoinPath(FilePool[i]) \in TreePaths
                      <=> (ExtensionAllowed(FilePool[i]) /\ NoDeniedSegment(FilePool[i])))
            /\ ( \/ Suffix(LastSegment(FilePool[i])) \in {<<>>, DotBin}
                 \/ \E j \in 1..(Len(FilePool[i]) - 1) : FilePool[i][j] = NodeModules )
                  => JoinPath(FilePool[i]) \notin (DependencyPaths \cup TreePaths)

\* The part of C9 that holds in every build: the two rules with the
\* extension compared as the build compares it, and the exclusions.
C9_RuleApartFromCase ==
    filesBuilt =>
        \A i \in repoFiles :
            /\ JoinPath(FilePool[i]) \in DependencyPaths
                  <=> (ExtensionAccepted(FilePool[i]) /\ NoDeniedSegment(FilePool[i]))
            /\ i \notin StatFailed =>
                  (JoinPath(FilePool[i]) \in TreePaths
                      <=> (ExtensionAccepted(FilePool[i]) /\ NoDeniedSegment(FilePool[i])))
            /\ ( \/ Suffix(LastSegment(FilePool[i])) \in {<<>>, DotBin}
                 \/ \E j \in 1..(Len(FilePool[i]) - 1) : FilePool[i][j] = NodeModules )
                  => JoinPath(FilePool[i]) \notin (DependencyPaths \cup TreePaths)

(***************************************************************************)
(* Back end: the pipeline of one request (POST /analyze or POST /chat),    *)
(*   validate -> clone into a fresh temporary directory -> filter ->       *)
(*   call the language model -> respond,                                   *)
(* with its failures and the caller's disconnection (sections 4.1, 5, 6    *)
(* and 7 of the specification).  Several requests run concurrently.        *)
(***************************************************************************)
RequestIds == 1..MaxRequests
RequestKinds == {"analyze", "chat"}
\* The repository URLs the requests carry: one the pattern accepts, one it
\* does not.
RequestUrls == {UrlPlain, UrlFtp}
InFlightPcs == {"received", "cloning", "cloned", "calling"}

\* The HTTP status of each way a request ends (0: nothing is sent, the
\* caller is gone).
StatusOf(outcome) ==
    CASE outcome = "ok" -> 200
      [] outcome \in {"invalid_url", "empty_repo", "clone_failed"} -> 400
      [] outcome = "model_error" -> 502
      [] outcome = "connection_error" -> 503
      [] outcome \in {"clone_timeout", "model_timeout"} -> 504
      [] OTHER -> 0

\* The request ends with the given outcome and keeps its directory.
EndKeepingDir(r, outcome) ==
    /\ requests' = [requests EXCEPT ![r].pc = "done", ![r].outcome = outcome,
                                    ![r].endedAt = requests[r].pc,
                                    ![r].status = StatusOf(outcome)]
    /\ UNCHANGED tempDirs

\* The request ends with the given outcome; the directory it allocated, if
\* any, is removed from disk.
EndRequest(r, outcome) ==
    IF requests[r].dir = 0
    THEN EndKeepingDir(r, outcome)
    ELSE /\ requests' = [requests EXCEPT ![r].pc = "done", ![r].outcome = outcome,
                                         ![r].endedAt = requests[r].pc,
                                         ![r].status = StatusOf(outcome),
                                         ![r].released = @ + 1]
         /\ tempDirs' = tempDirs \ {requests[r].dir}

\* A request arrives.
ReceiveRequest(r, kind, url) ==
    /\ requests[r].pc = "none"
    /\ requests' = [requests EXCEPT ![r].pc = "received", ![r].kind = kind, ![r].url = url]
    /\ UNCHANGED <<tempDirs, nextDir>>
    /\ UNCHANGED nonReqVars

\* The Repository Fetcher rejects the URL (InvalidRepoError), before any
\* network or filesystem operation.
RejectUrl(r) ==
    /\ requests[r].pc = "received"
    /\ ~fullUrlPattern(requests[r].url)
    /\ EndRequest(r, "invalid_url")
    /\ UNCHANGED nextDir
    /\ UNCHANGED nonReqVars

\* A directory allocation that names the directory after the repository
\* (one name per URL) instead of taking a fresh name.
AllocateTempDir_ByUrl(r) ==
    /\ requests[r].pc = "received"
    /\ fullUrlPattern(requests[r].url)
    /\ requests' = [requests EXCEPT ![r].pc = "cloning", ![r].dir = Len(requests[r].url)]
    /\ tempDirs' = tempDirs \cup {Len(requests[r].url)}
    /\ UNCHANGED nextDir
    /\ UNCHANGED nonReqVars

\* The Repository Fetcher creates a fresh, uniquely named temporary
\* directory and starts the clone into it.
AllocateTempDir(r) ==
    /\ requests[r].pc = "received"
    /\ fullUrlPattern(requests[r].url)
    /\ requests' = [requests EXCEPT ![r].pc = "cloning", ![r].dir = nextDir]
    /\ tempDirs' = tempDirs \cup {nextDir}
    /\ nextDir' = nextDir + 1
    /\ UNCHANGED nonReqVars

\* The clone completes; the filtered file set is empty or not.
CloneSucceeds(r, hasSources) ==
    /\ requests[r].pc = "cloning"
    /\ requests' = [requests EXCEPT ![r].pc = "cloned", ![r].sources = hasSources]
    /\ UNCHANGED <<tempDirs, nextDir>>
    /\ UNCHANGED nonReqVars

\* A clone failure after which the directory is left on disk.
CloneFails_NoCleanup(r, outcome) ==
    /\ requests[r].pc = "cloning"
    /\ EndKeepingDir(r, outcome)
    /\ UNCHANGED nextDir
    /\ UNCHANGED nonReqVars

\* The clone fails (CloneFailedError): not found, private, network, or
\* the clone timeout.
CloneFails(r, outcome) ==
    /\ requests[r].pc = "cloning"
    /\ EndRequest(r, outcome)
    /\ UNCHANGED nextDir
    /\ UNCHANGED nonReqVars

\* The repository has zero source files after filtering.
EmptyRepository(r) ==
    /\ requests[r].pc = "cloned"
    /\ ~requests[r].sources
    /\ EndRequest(r, "empty_repo")
    /\ UNCHANGED nextDir
    /\ UNCHANGED nonReqVars

\* The content is aggregated and the language model is called.
CallModel(r) ==
    /\ requests[r].pc = "cloned"
    /\ requests[r].sources
    /\ requests' = [requests EXCEPT ![r].pc = "calling"]
    /\ UNCHANGED <<tempDirs, nextDir>>
    /\ UNCHANGED nonReqVars

\* The model answers; the request responds 200.
ModelAnswers(r) ==
    /\ requests[r].pc = "calling"
    /\ EndRequest(r, "ok")
    /\ UNCHANGED nextDir
    /\ UNCHANGED nonReqVars

\* The model call fails (ExternalServiceError or its timeout variant).
ModelFails(r, outcome) ==
    /\ requests[r].pc = "calling"
    /\ EndRequest(r, outcome)
    /\ UNCHANGED nextDir
    /\ UNCHANGED nonReqVars

\* The caller disconnects mid-request: the clone and the model call are
\* abandoned and no result is returned.
CallerDisconnects(r) ==
    /\ requests[r].pc \in InFlightPcs
    /\ EndRequest(r, "disconnected")
    /\ UNCHANGED nextDir
    /\ UNCHANGED nonReqVars

InitBackend == AppInit /\ UrlIdle /\ GraphIdle /\ FilesIdle /\ RequestsIdle /\ ExtractIdle /\ ServerUp

NextBackend ==
    \E r \in RequestIds :
        \/ \E kind \in RequestKinds, url \in RequestUrls : ReceiveRequest(r, kind, url)
        \/ RejectUrl(r)
        \/ AllocateTempDir(r)
        \/ \E hasSources \in BOOLEAN : CloneSucceeds(r, hasSources)
        \/ \E outcome \in {"clone_failed", "clone_timeout"} : CloneFails(r, outcome)
        \/ EmptyRepository(r)
        \/ CallModel(r)
        \/ ModelAnswers(r)
        \/ \E outcome \in {"model_error", "connection_error", "model_timeout"} :
              ModelFails(r, outcome)
        \/ CallerDisconnects(r)

SpecBackend == InitBackend /\ [][NextBackend]_vars

(***************************************************************************)
(* Claims about the temporary clone directories.                           *)
(***************************************************************************)
\* C10: every request that allocated a temporary clone directory releases
\* it exactly once on every exit path: while the request runs the directory
\* is on disk and unreleased; once the request has ended (success, invalid
\* or empty repository, clone failure, model failure, timeout, disconnect)
\* the directory has been released once and is gone; none is released twice
\* and no directory without a running request remains on disk.
C10_TempDirReleasedExactlyOnce ==
    /\ \A r \in RequestIds :
          /\ requests[r].released <= 1
          /\ requests[r].dir = 0 => requests[r].released = 0
          /\ (requests[r].pc = "done" /\ requests[r].dir # 0)
                => (requests[r].released = 1 /\ requests[r].dir \notin tempDirs)
          /\ (requests[r].pc \in InFlightPcs /\ requests[r].dir # 0)
                => (requests[r].released = 0 /\ requests[r].dir \in tempDirs)
    /\ tempDirs = {requests[r].dir : r \in {q \in RequestIds :
                        requests[q].pc \in InFlightPcs /\ requests[q].dir # 0}}

\* Scenario 4 beside a running request: one request's clone has failed with
\* status 400 and its directory is gone, another still holds its own.
C10_Witness ==
    \E r, q \in RequestIds :
        /\ requests[r].pc = "done" /\ requests[r].outcome = "clone_failed"
        /\ StatusOf(requests[r].outcome) = 400
        /\ requests[r].dir # 0 /\ requests[r].released = 1
        /\ requests[r].dir \notin tempDirs
        /\ requests[q].pc = "calling" /\ requests[q].dir \in tempDirs

\* The requests that hold a temporary directory and have not ended.
HoldsDir(r) == requests[r].pc \in InFlightPcs /\ requests[r].dir # 0

\* Every directory handed out is fresh: no two requests, in flight or ended,
\* were given the same one, and a running request's directory is on disk.
DirsDistinctAndFresh ==
    /\ \A r, q \in RequestIds :
          (r # q /\ requests[r].dir # 0 /\ requests[q].dir # 0)
              => requests[r].dir # requests[q].dir
    /\ \A r \in RequestIds :
          /\ requests[r].dir # 0 => requests[r].dir < nextDir
          /\ HoldsDir(r) => requests[r].dir \in tempDirs

\* A step that removes a directory from disk removes only the directory of
\* the request that ends in that step, and leaves every other running
\* request's directory in place.
DeletionIsPrivate ==
    \A d \in tempDirs \ tempDirs' :
        /\ \E r \in RequestIds :
              requests[r].dir = d /\ HoldsDir(r) /\ requests'[r].pc = "done"
        /\ \A q \in RequestIds :
              (HoldsDir(q) /\ requests'[q].pc \in InFlightPcs)
                  => (requests[q].dir # d /\ requests'[q].dir \in tempDirs')

\* C11: no two in-flight requests ever use the same temporary clone
\* directory, also when they carry the same repository URL: each request
\* clones into its own fresh directory, and deleting one request's directory
\* never removes the directory another in-flight request is reading.
C11_TempDirsArePrivate == []DirsDistinctAndFresh /\ [][DeletionIsPrivate]_vars

\* Two requests for the same repository URL are cloning at the same time,
\* each into its own directory.
C11_Witness ==
    \E r, q \in RequestIds :
        /\ r # q
        /\ requests[r].url = requests[q].url
        /\ requests[r].pc = "cloning" /\ requests[q].pc = "cloning"
        /\ requests[r].dir # requests[q].dir
        /\ {requests[r].dir, requests[q].dir} \subseteq tempDirs

(***************************************************************************)
(* Claims about the requests the front end sends.                          *)
(***************************************************************************)
\* The POST /chat requests awaiting a response.
ChatRequestsInFlight == chatOrphans + Len(chatInFlight)

\* A step sends POST /analyze only from the one fetch() of the running
\* invocation, which has sent none before.
AnalyzePostIsFirstOfInvocation ==
    (analyzeInFlight' # <<>> /\ analyzeInFlight' # analyzeInFlight)
        => (isAnalyzing /\ analyzePc = "timer2" /\ analyzeInFlight = <<>>
            /\ analyzePc' = "fetch")

\* A step that ends the awaited POST /analyze, or shows the analysis error,
\* ends the invocation: nothing is in flight afterwards, and on a failure
\* the error is on screen.
AnalyzeEndIsFinal ==
    ((analyzeInFlight # <<>> /\ analyzeInFlight' # analyzeInFlight)
        \/ (error' \in AnalysisErrors /\ error' # error))
        => /\ analyzeInFlight' = <<>>
           /\ ~isAnalyzing' /\ analyzePc' = "idle"
           /\ (completedSteps' # steps => error' \in AnalysisErrors)

\* The number of POST /chat in flight grows only by one, in a step in which
\* the user sends a question (their message is appended).
ChatPostIsUserSend ==
    (ChatRequestsInFlight' > ChatRequestsInFlight)
        => /\ ChatRequestsInFlight' = ChatRequestsInFlight + 1
           /\ ~isLoading /\ chatInFlight = <<>>
           /\ messages' = Append(messages, [role |-> "user", content |-> input])

\* A step that ends the awaited POST /chat leaves none awaited and shows
\* the answer or the apology.
ChatEndIsFinal ==
    (chatInFlight # <<>> /\ chatInFlight' = <<>> /\ activeTab' = activeTab
        /\ isAnalyzing' = isAnalyzing)
        => /\ ~isLoading'
           /\ Len(messages') = Len(messages) + 1
           /\ messages'[Len(messages')].role = "assistant"
           /\ ChatRequestsInFlight' = ChatRequestsInFlight - 1

\* C12: a failed request is never retried automatically: an invocation of
\* analyzeRepo sends at most one POST /analyze and a chat send at most one
\* POST /chat; a failure is shown at once with nothing left in flight, and
\* the next request is sent only by a new user action.
C12_NoAutomaticRetry ==
    [][/\ AnalyzePostIsFirstOfInvocation
       /\ AnalyzeEndIsFinal
       /\ ChatPostIsUserSend
       /\ ChatEndIsFinal]_vars

\* An analysis has failed: the error is shown, nothing is in flight and the
\* Analyze button is enabled again.
C12_Witness ==
    /\ error = FetchFailedMsg
    /\ ~isAnalyzing /\ analyzePc = "idle"
    /\ analyzeInFlight = <<>>
    /\ analysisData = <<>>

(***************************************************************************)
(* The front end and the back end together: the App's POST /analyze and    *)
(* the Chat's POST /chat are each served by one request of the back end,   *)
(* whose answer the handler that sent it receives.  A request whose caller *)
(* has gone (fetch() rejected) runs on beside them.                        *)
(***************************************************************************)
\* The requests are numbered as they arrive: the first slot not yet used
\* (0 when every slot has been).
NextSlot ==
    LET free == {r \in RequestIds : requests[r].pc = "none"}
    IN  IF free = {} THEN 0 ELSE CHOOSE r \in free : \A q \in free : r <= q

\* POST /analyze reaches the back end.
AnalyzeArrives(r) ==
    /\ analyzePc = "fetch"
    /\ awaited = 0
    /\ r = NextSlot
    /\ requests' = [requests EXCEPT ![r].pc = "received", ![r].kind = "analyze",
                                    ![r].url = analyzeInFlight[1].repo]
    /\ awaited' = r
    /\ UNCHANGED <<tempDirs, nextDir, awaitedChat>>
    /\ UNCHANGED <<appVars, urlVars, graphVars, fileVars, extractVars, procVars>>

\* The answers with a status other than 200 as analyzeRepo reads them
\* (lines 683-686): any body, with or without a detail, any status text.
NotOkFailures == {f \in AnalyzeFailures : f.kind = "not_ok"}

\* response.json() of an ok response throws: the body is no JSON (line 688).
JsonThrows == [kind |-> "throws", message |-> JsonParseMsg, body |-> "none",
               detail |-> <<>>, statusText |-> ""]

\* An analyzeRepo that takes every answer as a success.
AnalyzeAnswered_IgnoresStatus ==
    /\ awaited # 0
    /\ requests[awaited].pc = "done"
    /\ requests[awaited].outcome # "disconnected"
    /\ \E body \in ResponseBodies : AnalyzeResponseOkApp(body)
    /\ awaited' = 0
    /\ UNCHANGED <<reqVars, awaitedChat, urlVars, graphVars, fileVars, extractVars, procVars>>

\* The answer arrives: response.ok is true for status 200 only (line 683).
\* With 200 the body is stored, whatever JSON it is, or json() throws; with
\* any other status the catch shows what line 685 makes of the body.
AnalyzeAnswered ==
    /\ awaited # 0
    /\ requests[awaited].pc = "done"
    /\ requests[awaited].outcome # "disconnected"
    /\ IF requests[awaited].status = 200
       THEN \/ \E body \in ResponseBodies : AnalyzeResponseOkApp(body)
            \/ AnalyzeResponseFailApp(JsonThrows)
       ELSE \E f \in NotOkFailures : AnalyzeResponseFailApp(f)
    /\ awaited' = 0
    /\ UNCHANGED <<reqVars, awaitedChat, urlVars, graphVars, fileVars, extractVars, procVars>>

\* fetch() rejects: the back end is unreachable or the connection is lost;
\* a request that had arrived goes on without its caller.
AnalyzeFetchRejects ==
    /\ AnalyzeResponseFailApp([kind |-> "throws", message |-> FetchFailedMsg, body |-> "none",
                               detail |-> <<>>, statusText |-> ""])
    /\ awaited' = 0
    /\ UNCHANGED <<reqVars, awaitedChat, urlVars, graphVars, fileVars, extractVars, procVars>>

\* POST /chat reaches the back end with the repo of its body: the App's URL
\* field as it was when the question was sent (Chat.jsx lines 30-34).
ChatArrives(r) ==
    /\ chatInFlight # <<>>
    /\ awaitedChat = 0
    /\ r = NextSlot
    /\ requests' = [requests EXCEPT ![r].pc = "received", ![r].kind = "chat",
                                    ![r].url = chatInFlight[1].repo]
    /\ awaitedChat' = r
    /\ UNCHANGED <<tempDirs, nextDir, awaited>>
    /\ UNCHANGED <<appVars, urlVars, graphVars, fileVars, extractVars, procVars>>

\* The answer to POST /chat arrives: with status 200 its response is
\* appended, or reading the body throws; with any other status line 39
\* throws.  Every throw ends in the catch.
ChatAnswered ==
    /\ awaitedChat # 0
    /\ requests[awaitedChat].pc = "done"
    /\ requests[awaitedChat].outcome # "disconnected"
    /\ IF requests[awaitedChat].status = 200
       THEN \/ \E a \in Answers : ChatResponseOkApp(a)
            \/ ChatResponseFailApp
       ELSE ChatResponseFailApp
    /\ awaitedChat' = 0
    /\ UNCHANGED <<reqVars, awaited, urlVars, graphVars, fileVars, extractVars, procVars>>

\* fetch() of POST /chat rejects; a request that had arrived goes on
\* without its caller.
ChatFetchRejects ==
    /\ ChatResponseFailApp
    /\ awaitedChat' = 0
    /\ UNCHANGED <<reqVars, awaited, urlVars, graphVars, fileVars, extractVars, procVars>>

\* The request of a caller who is gone: no fetch waits for it.
Abandoned(r) == r # awaited /\ r # awaitedChat /\ ~requests[r].orphan

BackendStep(r) ==
    \/ RejectUrl(r)
    \/ AllocateTempDir(r)
    \/ \E hasSources \in BOOLEAN : CloneSucceeds(r, hasSources)
    \/ \E outcome \in {"clone_failed", "clone_timeout"} : CloneFails(r, outcome)
    \/ EmptyRepository(r)
    \/ CallModel(r)
    \/ ModelAnswers(r)
    \/ \E outcome \in {"model_error", "connection_error", "model_timeout"} :
          ModelFails(r, outcome)

\* The URLs typed into the App's field: one the back end accepts and one it
\* rejects.
ServiceUrls == {UrlPlain, UrlFtp}

\* The requests a fetch of the front end waits for: the App's, the mounted
\* Chat's, and those of Chat instances that have been unmounted.
WaitedFor(r) == r = awaited \/ r = awaitedChat \/ requests[r].orphan

\* The step unmounts the Chat while its question is at the back end: its
\* fetch keeps waiting, for a component that is gone.
ChatLinkAfterUnmount ==
    IF awaitedChat # 0 /\ chatInFlight' = <<>>
    THEN /\ requests' = [requests EXCEPT ![awaitedChat].orphan = TRUE]
         /\ awaitedChat' = 0
    ELSE UNCHANGED <<requests, awaitedChat>>

\* analyzeRepo, at any time the button is enabled.
AnalyzeRepoServed ==
    /\ AnalyzeRepoApp
    /\ ChatLinkAfterUnmount
    /\ UNCHANGED <<tempDirs, nextDir, awaited>>
    /\ UNCHANGED <<urlVars, graphVars, fileVars, extractVars, procVars>>

\* A tab button is clicked, at any time.
SetActiveTabServed(t) ==
    /\ setActiveTabApp(t)
    /\ ChatLinkAfterUnmount
    /\ UNCHANGED <<tempDirs, nextDir, awaited>>
    /\ UNCHANGED <<urlVars, graphVars, fileVars, extractVars, procVars>>

\* The answer to the question of an unmounted Chat arrives: the handler
\* runs to its end and its setState calls reach no mounted component.
OrphanAnswered(r) ==
    /\ requests[r].orphan
    /\ requests[r].pc = "done"
    /\ requests[r].outcome # "disconnected"
    /\ OrphanResponseApp
    /\ requests' = [requests EXCEPT ![r].orphan = FALSE]
    /\ UNCHANGED <<tempDirs, nextDir, awaited, awaitedChat>>
    /\ UNCHANGED <<urlVars, graphVars, fileVars, extractVars, procVars>>

\* The requests of unmounted Chat instances that are at the back end.
OrphansServed == {r \in RequestIds : requests[r].orphan}

\* The fetch of an unmounted Chat rejects: its POST had not reached the back
\* end, or the request it reached goes on without its caller.
OrphanFetchRejects ==
    /\ OrphanResponseApp
    /\ \/ /\ Cardinality(OrphansServed) < chatOrphans
          /\ UNCHANGED requests
       \/ \E r \in OrphansServed : requests' = [requests EXCEPT ![r].orphan = FALSE]
    /\ UNCHANGED <<tempDirs, nextDir, awaited, awaitedChat>>
    /\ UNCHANGED <<urlVars, graphVars, fileVars, extractVars, procVars>>

NextService ==
    \/ \E u \in ServiceUrls : SetRepoUrl(u)
    \/ AnalyzeRepoServed
    \/ CloneTimer
    \/ AnalyzeTimer
    \/ \E r \in RequestIds : AnalyzeArrives(r)
    \/ AnalyzeAnswered
    \/ AnalyzeFetchRejects
    \/ \E t \in {FirstTab, "chat"} : SetActiveTabServed(t)
    \/ setInput(QuestionHi)
    \/ handleSendMessage
    \/ \E r \in RequestIds : ChatArrives(r)
    \/ ChatAnswered
    \/ ChatFetchRejects
    \/ \E r \in RequestIds : OrphanAnswered(r)
    \/ OrphanFetchRejects
    \/ \E r \in RequestIds : BackendStep(r)
    \/ \E r \in RequestIds : Abandoned(r) /\ CallerDisconnects(r)

InitService == Init

SpecService == InitService /\ [][NextService]_vars

(***************************************************************************)
(* Claims about the answers of the back end and what the front end makes   *)
(* of them.                                                                *)
(***************************************************************************)
\* The requests that have been answered (a caller who left gets no answer).
Answered(r) == requests[r].pc = "done" /\ requests[r].outcome # "disconnected"

\* The status of an answered request, analyze or chat, against how the
\* request went: the URL it carried, the stage it ended in, the directory
\* it had, what the filter left, and which call failed.
StatusFollowsOutcome ==
    \A r \in RequestIds : Answered(r) =>
        LET q == requests[r]
        IN  /\ q.kind \in RequestKinds
            /\ q.status \in {200, 400, 502, 503, 504}
            \* 400: the URL fails validation, before anything is allocated
            /\ ~fullUrlPattern(q.url) =>
                  (q.status = 400 /\ q.endedAt = "received" /\ q.dir = 0)
            \* 400: zero source files, the only end between clone and model call
            /\ (q.endedAt = "cloned") => (q.status = 400 /\ ~q.sources)
            /\ (q.endedAt \in {"cloning", "calling"} /\ q.status # 200) =>
                  (fullUrlPattern(q.url) /\ q.dir # 0)
            \* 502, 503 and 504 of the model call end the request in the call
            /\ (q.outcome = "model_error") => (q.status = 502 /\ q.endedAt = "calling")
            /\ (q.outcome = "connection_error") => (q.status = 503 /\ q.endedAt = "calling")
            /\ (q.outcome = "model_timeout") => (q.status = 504 /\ q.endedAt = "calling")
            /\ (q.outcome = "clone_timeout") => (q.status = 504 /\ q.endedAt = "cloning")
            \* and no other end has these statuses
            /\ (q.status = 400) => \/ ~fullUrlPattern(q.url)
                                   \/ (q.endedAt = "cloned" /\ ~q.sources)
                                   \/ (q.endedAt = "cloning" /\ q.outcome = "clone_failed")
            /\ (q.status \in {502, 503}) => (q.endedAt = "calling" /\ q.sources)
            /\ (q.status = 504) => q.outcome \in {"clone_timeout", "model_timeout"}
            \* 200 only when none of these occurred
            /\ (q.status = 200) => /\ q.outcome = "ok"
                                   /\ q.endedAt = "calling"
                                   /\ fullUrlPattern(q.url)
                                   /\ q.dir # 0 /\ q.sources

\* A request gets its status when it ends and keeps it: one status each.
OneStatusPerRequest ==
    \A r \in RequestIds :
        /\ (requests[r].pc # "done") => requests[r].status = 0
        /\ (requests[r].status # 0) => requests'[r].status = requests[r].status

\* The step in which analyzeRepo receives a non-200 answer shows an error
\* message and leaves no analysis data.
AnalyzeNon200ShowsError ==
    (/\ awaited # 0 /\ awaited' = 0
     /\ Answered(awaited)
     /\ requests[awaited].status # 200)
        => /\ error' \in AnalysisErrors
           /\ error' # NoError
           /\ analysisData' = <<>>
           /\ ~isAnalyzing'

\* The step in which the mounted Chat's handleSendMessage receives a non-200
\* answer shows the apology as the assistant's message; nothing of the
\* answer is displayed and the analysis data are not touched.
ChatNon200ShowsError ==
    (/\ awaitedChat # 0 /\ awaitedChat' = 0
     /\ ~requests'[awaitedChat].orphan
     /\ Answered(awaitedChat)
     /\ requests[awaitedChat].status # 200)
        => /\ messages' = Append(messages, [role |-> "assistant", content |-> ApologyText])
           /\ ~isLoading'
           /\ UNCHANGED <<analysisData, error>>

Non200ShowsError == AnalyzeNon200ShowsError /\ ChatNon200ShowsError

\* The step in which the fetch of a chat question, of the mounted Chat or of
\* one unmounted since, receives a non-200 answer shows the apology.
EveryChatNon200ShowsError ==
    \A r \in RequestIds :
        (/\ requests[r].kind = "chat"
         /\ r = awaitedChat \/ requests[r].orphan
         /\ awaitedChat' # r /\ ~requests'[r].orphan
         /\ Answered(r)
         /\ requests[r].status # 200)
            => /\ messages' = Append(messages, [role |-> "assistant", content |-> ApologyText])
               /\ ~isLoading'

C14_HistoryIsEarlierMessages ==
    chatInFlight # <<>> =>
        /\ Len(messages) >= 1
        /\ chatInFlight[1].history = SubSeq(messages, 1, Len(messages) - 1)
        /\ messages[Len(messages)] = [role |-> "user", content |-> chatInFlight[1].question]
        /\ \A i \in 1..Len(chatInFlight[1].history) :
              chatInFlight[1].history[i].role = (IF i % 2 = 1 THEN "user" ELSE "assistant")

\* A second question is in flight: its history is the first question and
\* its answer.
C14_Witness ==
    /\ chatInFlight # <<>>
    /\ Len(chatInFlight[1].history) = 2
    /\ Len(messages) = 3
    /\ chatInFlight[1].history[1].role = "user"
    /\ chatInFlight[1].history[2].role = "assistant"

(***************************************************************************)
(* Back end: the Dependency Extractor (extract_dependencies), file by file:*)
(* the imports of each node file are extracted and resolved against the    *)
(* node files, and the per-file results are merged in any order (sections  *)
(* 4.4 and 5 of the specification).  The extractor is run twice.           *)
(***************************************************************************)
TokA == <<"a">>
TokB == <<"b">>
TokOs == <<"o", "s">>
TokUtil == <<".", "/", "u", "t", "i", "l">>
TokBuildO == <<".", "/", "b", "u", "i", "l", "d", "/", "o">>

\* The import tokens in the content of the files of FilePool, in two
\* versions of the repository (extract_imports_from_content).
FileImports(version, i) ==
    IF version = 1
    THEN CASE i = 1 -> <<TokB, TokOs>>
           [] i = 4 -> <<TokBuildO>>
           [] i = 9 -> <<TokUtil>>
           [] OTHER -> <<>>
    ELSE CASE i = 1 -> <<TokB, TokB>>
           [] i = 2 -> <<TokA>>
           [] i = 9 -> <<TokUtil, TokUtil>>
           [] OTHER -> <<>>
ContentVersions == {1, 2}

\* The name without its extension.
Stem(name) == SubSeq(name, 1, Len(name) - Len(Suffix(name)))

\* The node files: the filtered file set.
NodeFiles(files) ==
    LET nodes == extract_dependencies(files).nodes
    IN  {i \in files : \E k \in 1..Len(nodes) : nodes[k].path = JoinPath(FilePool[i])}

\* The node file an import token of `importer` resolves to, relative to the
\* importer's directory, with or without the extension; 0 when it is no
\* node file (an external package, an excluded file).
Resolve(importer, token, nodes) ==
    LET segs == SplitOn(token, "/")
        rel == IF segs[1] = <<".">> THEN Tail(segs) ELSE segs
        target == SubSeq(FilePool[importer], 1, Len(FilePool[importer]) - 1) \o rel
        matches == {j \in nodes :
                      /\ Len(FilePool[j]) = Len(target)
                      /\ Len(target) >= 1
                      /\ SubSeq(FilePool[j], 1, Len(target) - 1) = SubSeq(target, 1, Len(target) - 1)
                      /\ \/ FilePool[j][Len(target)] = target[Len(target)]
                         \/ Stem(FilePool[j][Len(target)]) = target[Len(target)]}
    IN  IF matches = {} THEN 0 ELSE SetMin(matches)

RECURSIVE EdgesFrom(_, _, _, _)
\* One edge per resolved import token tokens[k..] of file f, in order.
EdgesFrom(f, tokens, k, nodes) ==
    IF k > Len(tokens) THEN <<>>
    ELSE LET t == Resolve(f, tokens[k], nodes)
         IN  (IF t = 0 THEN <<>>
              ELSE <<[source |-> JoinPath(FilePool[f]), target |-> JoinPath(FilePool[t])]>>)
             \o EdgesFrom(f, tokens, k + 1, nodes)

\* The edges of one file, its content decoded or not.
FileEdges_NoDecodeCheck(f) == EdgesFrom(f, exImports[f], 1, DOMAIN exStage)

\* The edges of one file, resolved against the node files of the run: none
\* when its content cannot be decoded as text.
FileEdges(f) ==
    IF exBad = [file |-> f, kind |-> "decode"]
    THEN <<>>
    ELSE EdgesFrom(f, exImports[f], 1, DOMAIN exStage)

Pending == [stage |-> "pending", edges |-> <<>>]
AllMerged == \A f \in DOMAIN exStage : exStage[f].stage = "merged"

\* The run starts: the tree is built (an entry whose stat fails is skipped)
\* and the nodes are the filtered file set.
StartExtraction ==
    /\ exRun = 0
    /\ exRun' = 1
    /\ file_tree' = get_file_tree(repoFiles, StatFailed)
    /\ dependencies' = extract_dependencies(repoFiles)
    /\ exStage' = [f \in NodeFiles(repoFiles) |-> Pending]
    /\ UNCHANGED <<ai_detection, aiPanel, aiReport, treeStats, reportStats, repoFiles, filesBuilt, exImports, exBad, utilsBuild, exFirst>>
    /\ UNCHANGED <<appVars, urlVars, graphVars, reqVars, linkVars, procVars>>

\* A worker extracts the imports of one file.
ExtractFile(f) ==
    /\ exStage[f].stage = "pending"
    /\ exStage' = [exStage EXCEPT ![f] = [stage |-> "extracted", edges |-> FileEdges(f)]]
    /\ UNCHANGED <<fileVars, exImports, exBad, utilsBuild, exRun, exFirst>>
    /\ UNCHANGED <<appVars, urlVars, graphVars, reqVars, linkVars, procVars>>

RECURSIVE Dedup(_)
\* The list without the repetitions of an element.
Dedup(seq) ==
    IF seq = <<>> THEN <<>>
    ELSE LET front == Dedup(SubSeq(seq, 1, Len(seq) - 1))
             last == seq[Len(seq)]
         IN  IF \E i \in 1..Len(front) : front[i] = last THEN front ELSE Append(front, last)

\* The result of one file is merged into the edge collection: added to it
\* as it is, or, in a build that keeps the edge list as a set, without the
\* edges already there.
MergeFile(f) ==
    /\ exStage[f].stage = "extracted"
    /\ dependencies' = [dependencies EXCEPT !.edges =
                            IF utilsBuild.mergesAsSet
                            THEN Dedup(@ \o exStage[f].edges)
                            ELSE @ \o exStage[f].edges]
    /\ exStage' = [exStage EXCEPT ![f] = [stage |-> "merged", edges |-> <<>>]]
    /\ UNCHANGED <<ai_detection, aiPanel, aiReport, treeStats, reportStats, repoFiles, filesBuilt, file_tree, exImports, exBad, utilsBuild, exRun, exFirst>>
    /\ UNCHANGED <<appVars, urlVars, graphVars, reqVars, linkVars, procVars>>

\* The first run is complete; the extractor runs again on the unchanged
\* file set.
SecondRun ==
    /\ exRun = 1
    /\ AllMerged
    /\ exFirst' = <<dependencies.edges>>
    /\ exRun' = 2
    /\ dependencies' = [dependencies EXCEPT !.edges = <<>>]
    /\ exStage' = [f \in DOMAIN exStage |-> Pending]
    /\ UNCHANGED <<ai_detection, aiPanel, aiReport, treeStats, reportStats, repoFiles, filesBuilt, file_tree, exImports, exBad, utilsBuild>>
    /\ UNCHANGED <<appVars, urlVars, graphVars, reqVars, linkVars, procVars>>

\* The second run is complete.
FinishExtraction ==
    /\ exRun = 2
    /\ AllMerged
    /\ ~filesBuilt
    /\ filesBuilt' = TRUE
    /\ UNCHANGED <<ai_detection, aiPanel, aiReport, treeStats, reportStats, repoFiles, file_tree, dependencies, extractVars>>
    /\ UNCHANGED <<appVars, urlVars, graphVars, reqVars, linkVars, procVars>>

BadFiles(files) ==
    {NoBad} \cup {[file |-> f, kind |-> k] : f \in files, k \in {"stat", "decode"}}

InitExtract ==
    /\ AppInit /\ UrlIdle /\ GraphIdle /\ RequestsIdle /\ ServerUp
    /\ utilsBuild \in UtilsBuilds
    /\ repoFiles \in {S \in SUBSET (1..Len(FilePool)) : Cardinality(S) <= MaxFiles}
    /\ filesBuilt = FALSE
    /\ file_tree = NoTree
    /\ treeStats = <<>>
    /\ reportStats = <<>>
    /\ AiIdle
    /\ dependencies = NoDepData
    /\ \E version \in ContentVersions : exImports = [i \in repoFiles |-> FileImports(version, i)]
    /\ exBad \in BadFiles(repoFiles)
    /\ exStage = <<>>
    /\ exRun = 0
    /\ exFirst = <<>>

NextExtract ==
    \/ StartExtraction
    \/ \E f \in DOMAIN exStage : ExtractFile(f)
    \/ \E f \in DOMAIN exStage : MergeFile(f)
    \/ SecondRun
    \/ FinishExtraction

SpecExtract == InitExtract /\ [][NextExtract]_vars

(***************************************************************************)
(* Claims about the Dependency Extractor.                                  *)
(***************************************************************************)
\* The imports of the node files that resolve to a node file: the edges
\* the file set calls for, as (importer, position of the token) pairs.
ResolvedImports ==
    {p \in UNION {{<<a, k>> : k \in 1..Len(exImports[a])} : a \in DOMAIN exStage} :
        /\ exBad # [file |-> p[1], kind |-> "decode"]
        /\ Resolve(p[1], exImports[p[1]][p[2]], DOMAIN exStage) # 0}

EdgeOf(a, b) == [source |-> JoinPath(FilePool[a]), target |-> JoinPath(FilePool[b])]

\* The two lists hold the same edges the same number of times.
SameEdgeMultiset(s, t) ==
    /\ Len(s) = Len(t)
    /\ \A i \in 1..Len(s) : Occurrences(s, s[i]) = Occurrences(t, s[i])

RunComplete == exRun >= 1 /\ AllMerged

\* C15 as stated: dependency extraction is order-independent and
\* repeatable: whatever the order in which the per-file results were merged,
\* a complete run holds each edge as many times as the imports of its source
\* resolve to its target (no duplicate lost, none added), and the second run
\* on the unchanged file set yields the same edge multiset as the first.
C15_ExtractionOrderIndependent ==
    /\ RunComplete =>
          /\ Len(dependencies.edges) = Cardinality(ResolvedImports)
          /\ \A a, b \in DOMAIN exStage :
                Occurrences(dependencies.edges, EdgeOf(a, b))
                    = Cardinality({p \in ResolvedImports :
                          p[1] = a /\ Resolve(a, exImports[a][p[2]], DOMAIN exStage) = b})
    /\ (exRun = 2 /\ AllMerged) => SameEdgeMultiset(exFirst[1], dependencies.edges)

\* The part of C15 that holds in every build: the edges of a complete run
\* are those the resolved imports call for, whatever the order of the merge,
\* none added, and the second run yields the same edge multiset as the
\* first; a build that keeps the edge list as a set holds each edge once.
C15_RepeatableInEveryBuild ==
    /\ RunComplete =>
          /\ \A a, b \in DOMAIN exStage :
                LET wanted == Cardinality({p \in ResolvedImports :
                          p[1] = a /\ Resolve(a, exImports[a][p[2]], DOMAIN exStage) = b})
                    held == Occurrences(dependencies.edges, EdgeOf(a, b))
                IN  IF utilsBuild.mergesAsSet
                    THEN held = (IF wanted > 0 THEN 1 ELSE 0)
                    ELSE held = wanted
          /\ Len(dependencies.edges) <= Cardinality(ResolvedImports)
    /\ (exRun = 2 /\ AllMerged) => SameEdgeMultiset(exFirst[1], dependencies.edges)

\* Both runs are complete, their results were merged in different orders,
\* and two imports of one file resolve to the same target.
C15_TwoOrders ==
    /\ filesBuilt /\ exRun = 2 /\ AllMerged
    /\ exFirst[1] # dependencies.edges
    /\ \E p, q \in ResolvedImports :
          /\ p # q /\ p[1] = q[1]
          /\ Resolve(p[1], exImports[p[1]][p[2]], DOMAIN exStage)
                = Resolve(q[1], exImports[q[1]][q[2]], DOMAIN exStage)

\* C16: a failure on a single file never fails the run: an entry whose stat
\* fails is skipped in the tree and every other accepted file is still
\* there; a file that cannot be decoded as text contributes no edges, is
\* still a node of the dependency graph, and the other files' edges,
\* those to it included, are extracted.
C16_SingleFileFailureIsLocal ==
    exRun >= 1 =>
        /\ TreePaths = {JoinPath(FilePool[i]) : i \in
                          {j \in repoFiles \ StatFailed :
                              /\ ExtensionAccepted(FilePool[j])
                              /\ NoDeniedSegment(FilePool[j])}}
        /\ DependencyPaths = {JoinPath(FilePool[i]) : i \in
                          {j \in repoFiles :
                              /\ ExtensionAccepted(FilePool[j])
                              /\ NoDeniedSegment(FilePool[j])}}
        /\ \A f \in DOMAIN exStage :
              exBad = [file |-> f, kind |-> "decode"] =>
                  /\ exStage[f].edges = <<>>
                  /\ \A i \in 1..Len(dependencies.edges) :
                        dependencies.edges[i].source # JoinPath(FilePool[f])
        /\ RunComplete =>
              \A p \in ResolvedImports :
                  \E i \in 1..Len(dependencies.edges) :
                      dependencies.edges[i].source = JoinPath(FilePool[p[1]])

\* a.py cannot be decoded: both runs are complete, a.py is a node without
\* outgoing edges and b.PY's import of it is an edge.
C16_Witness ==
    /\ filesBuilt
    /\ exBad = [file |-> 1, kind |-> "decode"]
    /\ exImports[1] # <<>>
    /\ JoinPath(FilePool[1]) \in DependencyPaths
    /\ \E i \in 1..Len(dependencies.edges) :
          dependencies.edges[i] = EdgeOf(2, 1)

(***************************************************************************)
(* Back end: the server process and its credential (README, Setup).        *)
(***************************************************************************)
\* The operator sets or unsets GEMINI_API_KEY in the environment.
SetEnvKey(present) ==
    /\ envKey # present
    /\ envKey' = present
    /\ UNCHANGED <<procState, procKey>>
    /\ UNCHANGED <<appVars, urlVars, graphVars, fileVars, reqVars, linkVars, extractVars>>

\* A start that does not look at the credential.
StartServer_NoKeyCheck ==
    /\ procState # "running"
    /\ procState' = "running"
    /\ procKey' = envKey
    /\ UNCHANGED envKey
    /\ UNCHANGED <<appVars, urlVars, graphVars, fileVars, reqVars, linkVars, extractVars>>

\* The process starts: it reads the credential and refuses to start (exits)
\* when it is absent.
StartServer ==
    /\ procState # "running"
    /\ procState' = (IF envKey THEN "running" ELSE "refused")
    /\ procKey' = envKey
    /\ UNCHANGED envKey
    /\ UNCHANGED <<appVars, urlVars, graphVars, fileVars, reqVars, linkVars, extractVars>>

\* Requests reach a process only while it runs.
ServeRequests == procState = "running" /\ NextBackend

InitServer ==
    /\ AppInit /\ UrlIdle /\ GraphIdle /\ FilesIdle /\ RequestsIdle /\ ExtractIdle
    /\ envKey \in BOOLEAN
    /\ procState = "stopped"
    /\ procKey = FALSE

NextServer ==
    \/ \E present \in BOOLEAN : SetEnvKey(present)
    \/ StartServer
    \/ ServeRequests

SpecServer == InitServer /\ [][NextServer]_vars

\* C17: the back end refuses to start when GEMINI_API_KEY is absent: a start
\* without it leaves no running process, and every request that was ever
\* received was received by a process that holds the credential.
C17_NoServiceWithoutCredential ==
    /\ procState = "running" => procKey
    /\ (procState = "refused") => ~procKey
    /\ \A r \in RequestIds : requests[r].pc # "none" => (procState = "running" /\ procKey)

\* A start without the credential was refused and no request was served;
\* the credential has been set since.
C17_Witness ==
    /\ procState = "refused"
    /\ envKey
    /\ \A r \in RequestIds : requests[r].pc = "none"

(***************************************************************************)
(* Scheduling of the App with the back end.  The two setTimeout timers of  *)
(* analyzeRepo fire (lines 669 and 673).  fetch() is called without a      *)
(* signal or a time limit (lines 676-680): nothing in the front end makes  *)
(* the POST arrive, be answered or be given up.                            *)
(***************************************************************************)
FairService ==
    /\ WF_vars(CloneTimer)
    /\ WF_vars(AnalyzeTimer)

SpecServiceFair == SpecService /\ FairService

\* C18: every analysis that analyzeRepo starts eventually ends: isAnalyzing
\* returns to false with analysis data or an error message set, on every
\* path, also when the clone or the model call hangs.
C18_AnalysisEnds ==
    isAnalyzing ~> (~isAnalyzing /\ (analysisData # <<>> \/ error # NoError))

(***************************************************************************)
(* DependencyGraph: the filter buttons, the node cards and the details     *)
(* panel.                                                                  *)
(***************************************************************************)
\* filteredNodes (useMemo, lines 143-146)
filteredNodes ==
    IF filter = FilterAll THEN processedData.nodes
    ELSE LET Keep(n) == getFileExtension(n.file) = filter
         IN  SelectSeq(processedData.nodes, Keep)

\* The body of selectedImports (useMemo, lines 148-152) for a selection.
selectedImportsOf(file) ==
    IF file = <<>> THEN <<>>
    ELSE LET node == FindByFile(processedData.nodes, file)
         IN  IF node = 0 THEN <<>> ELSE processedData.nodes[node].imports

selectedImports == selectedImportsOf(selectedFile)

\* An "imported by" list that leaves out the selected file itself.
selectedImportedByOf_NoSelf(file) ==
    IF file = <<>> THEN <<>>
    ELSE LET Importer(n) == /\ n.file # file
                            /\ \E i \in 1..Len(n.imports) : n.imports[i] = file
             importers == SelectSeq(processedData.nodes, Importer)
         IN  [i \in 1..Len(importers) |-> importers[i].file]

\* The body of selectedImportedBy (useMemo, lines 154-159) for a selection.
selectedImportedByOf(file) ==
    IF file = <<>> THEN <<>>
    ELSE LET Importer(n) == \E i \in 1..Len(n.imports) : n.imports[i] = file
             importers == SelectSeq(processedData.nodes, Importer)
         IN  [i \in 1..Len(importers) |-> importers[i].file]

selectedImportedBy == selectedImportedByOf(selectedFile)

\* A filter button: 'All' or one of the keys of byType.
setFilter(key) ==
    /\ graphRendered
    /\ GraphShown(depData)
    /\ key \in {FilterAll} \cup DOMAIN processedData.byType
    /\ key # filter
    /\ filter' = key
    /\ UNCHANGED <<depData, graphRendered, processedData, selectedFile>>
    /\ UNCHANGED nonGraphVars

\* A click on a node card (onSelect), on an entry of "Imported by", or on
\* the close button of the details panel (null).
setSelectedFile(file) ==
    /\ graphRendered
    /\ GraphShown(depData)
    /\ \/ \E i \in 1..Len(filteredNodes) : filteredNodes[i].file = file
       \/ \E i \in 1..Len(selectedImportedBy) : selectedImportedBy[i] = file
       \/ (file = <<>> /\ selectedFile # <<>>)
    /\ file # selectedFile
    /\ selectedFile' = file
    /\ UNCHANGED <<depData, graphRendered, processedData, filter>>
    /\ UNCHANGED nonGraphVars

\* The graphs of DepInputs over the nodes 3.. of NodePool (the first of
\* them has no extension).
ShiftedGraphData(k, edgeList) ==
    [format |-> "graph", nodes |-> SubSeq(NodePool, 3, k + 2),
     edges |-> [i \in 1..Len(edgeList) |->
                  [source |-> NodeId(edgeList[i].source + 2),
                   target |-> NodeId(edgeList[i].target + 2)]],
     entries |-> <<>>]

ViewInputs(lists) ==
    PlainInputs(lists) \cup { ShiftedGraphData(k, el) : k \in 1..MaxNodes, el \in lists }

\* Every file that can be shown or named in the data.
ViewFiles ==
    {<<>>, UndefinedKey, ConstructorKey, ProtoKey} \cup {NodeFile(NodePool[i]) : i \in 1..Len(NodePool)}

InitGraphView ==
    /\ AppInit /\ UrlIdle /\ FilesIdle /\ RequestsIdle /\ ExtractIdle /\ ServerUp
    /\ depData \in ViewInputs(EdgeLists)
    /\ graphRendered = FALSE
    /\ processedData = EmptyProcessed
    /\ filter = FilterAll
    /\ selectedFile = <<>>

NextGraphView ==
    \/ RenderDependencyGraph
    \/ \E key \in {FilterAll} \cup DOMAIN processedData.byType : setFilter(key)
    \/ \E file \in ViewFiles : setSelectedFile(file)

SpecGraphView == InitGraphView /\ [][NextGraphView]_vars

\* The key byType uses for a file without an extension.
OtherKey == <<".", "o", "t", "h", "e", "r">>

RECURSIVE SumCounts(_, _)
\* The sum of the counts shown on the buttons of the keys in keys.
SumCounts(byType, keys) ==
    IF keys = {} THEN 0
    ELSE LET k == CHOOSE x \in keys : TRUE
         IN  byType[k] + SumCounts(byType, keys \ {k})

\* C19: the counts of byType sum to the number of nodes, and with the filter
\* of any key of byType selected (the key of the files without an extension
\* included) as many node cards are displayed as the count on its button.
C19_FilterMatchesHistogram ==
    graphRendered =>
        /\ SumCounts(processedData.byType, DOMAIN processedData.byType)
              = Len(processedData.nodes)
        /\ filter \in DOMAIN processedData.byType =>
              Len(filteredNodes) = processedData.byType[filter]

\* The first half of C19 alone holds: the counts sum to the number of nodes.
C19_CountsSumToNodes ==
    graphRendered =>
        SumCounts(processedData.byType, DOMAIN processedData.byType)
           = Len(processedData.nodes)

\* The filter of an extension that files do carry shows as many as its count.
C19_ExtensionFilterMatches ==
    (graphRendered /\ filter \in DOMAIN processedData.byType /\ filter # OtherKey) =>
        Len(filteredNodes) = processedData.byType[filter]

Contains(seq, x) == \E i \in 1..Len(seq) : seq[i] = x

\* The files of the graph: the files of the nodes displayed.
GraphFiles == {processedData.nodes[i].file : i \in 1..Len(processedData.nodes)}

RECURSIVE FileTree_countFiles(_), FileTree_countFilesAll(_, _)
\* Statistics that leave the root folder out.
FileTree_countFiles_NoRoot(node) ==
    [files |-> countFiles(node).files, folders |-> countFiles(node).folders - 1]

\* FileTree.jsx: const countFiles = (node) => ...
FileTree_countFiles(node) ==
    IF node.type = "file" THEN [files |-> 1, folders |-> 0]
    ELSE LET kids == FileTree_countFilesAll(node.children, 1)
         IN  [files |-> kids.files, folders |-> 1 + kids.folders]
\* node.children.forEach(child => ...) from child j on
FileTree_countFilesAll(children, j) ==
    IF j > Len(children) THEN [files |-> 0, folders |-> 0]
    ELSE LET a == FileTree_countFiles(children[j])
             b == FileTree_countFilesAll(children, j + 1)
         IN  [files |-> a.files + b.files, folders |-> a.folders + b.folders]

\* FileTree: !data || !data.children || data.children.length === 0
TreeIsEmpty(data) == data.type = "none" \/ Len(data.children) = 0

\* value || fallback on a number field: missing and 0 are falsy.
OrElse(field, fallback) ==
    IF field = <<>> \/ field[1] = 0 THEN fallback ELSE field[1]

\* AIDetection: const aiPercentage = data.ai_percentage || 0
aiPercentage(data) == OrElse(data.ai_percentage, 0)

\* AIDetection: const humanPercentage = data.human_percentage || (100 - aiPercentage)
humanPercentage(data) == OrElse(data.human_percentage, 100 - aiPercentage(data))

\* Report: {data.ai_detection.ai_percentage || 0}%
ReportAiPercentage(data) == OrElse(data.ai_percentage, 0)

\* Report: {data.ai_detection.human_percentage || 100}%
ReportHumanPercentage(data) == OrElse(data.human_percentage, 100)

\* FileTree renders the stats header (not the "No file structure" notice).
RenderFileTree ==
    /\ filesBuilt
    /\ ~TreeIsEmpty(file_tree)
    /\ treeStats' = <<FileTree_countFiles(file_tree)>>
    /\ UNCHANGED <<repoFiles, filesBuilt, file_tree, dependencies, reportStats,
                   ai_detection, aiPanel, aiReport>>
    /\ UNCHANGED nonFileVars

\* The Report renders, as it does for every analysis data (line 329 returns
\* null for no data only): const fileStats = data.file_tree ? countFiles(...)
\* : { files: 0, folders: 0 } and, with data.ai_detection, the AI Detection
\* Summary (lines 516-534).
RenderReport ==
    /\ reportStats' = <<IF file_tree.type = "none"
                        THEN [files |-> 0, folders |-> 0]
                        ELSE countFiles(file_tree)>>
    /\ aiReport' = IF ai_detection.present
                   THEN <<[ai |-> ReportAiPercentage(ai_detection),
                           human |-> ReportHumanPercentage(ai_detection)]>>
                   ELSE <<>>
    /\ UNCHANGED <<repoFiles, filesBuilt, file_tree, dependencies, treeStats,
                   ai_detection, aiPanel>>
    /\ UNCHANGED nonFileVars

NextTreeView == BuildStructure \/ RenderFileTree \/ RenderReport

SpecTreeView == InitFiles /\ [][NextTreeView]_vars

RECURSIVE TreeSize(_), TreeSizeAll(_, _)
\* The number of nodes of a tree, its root included.
TreeSize(node) == 1 + TreeSizeAll(node.children, 1)
TreeSizeAll(children, j) ==
    IF j > Len(children) THEN 0
    ELSE TreeSize(children[j]) + TreeSizeAll(children, j + 1)

\* files counts the file nodes, folders every other node, the root included.
StatsOfTree(stats, tree) ==
    /\ stats.files = Len(FilePathsOf(tree))
    /\ stats.folders = TreeSize(tree) - Len(FilePathsOf(tree))
    /\ stats.files + stats.folders = TreeSize(tree)

\* C21: the statistics shown are a function of the tree: files is the number
\* of file nodes, folders the number of all other nodes with the root, their
\* sum the number of nodes, and the FileTree view and the Report show the same
\* statistics for the same tree.
C21_StatsAreFunctionOfTree ==
    /\ treeStats # <<>> => StatsOfTree(treeStats[1], file_tree)
    /\ (reportStats # <<>> /\ file_tree.type # "none") =>
          StatsOfTree(reportStats[1], file_tree)
    /\ (treeStats # <<>> /\ reportStats # <<>>) => treeStats = reportStats

\* Both views have rendered a tree with a folder under the root and two
\* files or more.
C21_Witness ==
    /\ treeStats # <<>>
    /\ reportStats # <<>>
    /\ treeStats[1].files >= 2
    /\ treeStats[1].folders >= 2

(***************************************************************************)
(* Claims about the App's analysis run.                                    *)
(***************************************************************************)
\* An analysis is running exactly while isAnalyzing, and only a running
\* analysis has a POST /analyze awaiting its response.
OneAnalysisRunning ==
    /\ isAnalyzing <=> analyzePc # "idle"
    /\ analyzeInFlight # <<>> => (isAnalyzing /\ analyzePc = "fetch")
    /\ Len(analyzeInFlight) <= 1

\* A step in which analyzeRepo passes its two checks and starts a run.
AnalysisStarts == analyzePc' = "timer1" /\ (analyzePc # "timer1" \/ trimmedUrl' # trimmedUrl)

\* While isAnalyzing no analysis starts and the URL input keeps its value.
NoStartWhileAnalyzing ==
    isAnalyzing => (~AnalysisStarts /\ repoUrl' = repoUrl)

\* The data stored on completion is that of the analysis started last: of
\* the URL in the input, which is the one that run trimmed.
StoredDataIsOfLatest ==
    (analysisData' # analysisData /\ analysisData' # <<>>) =>
        /\ analysisData'[1].repo = trimmedUrl
        /\ analysisData'[1].repo = Trim(repoUrl)

\* C22: at most one analysis is in flight; while isAnalyzing no analyzeRepo
\* starts and the URL input is not edited, so the data stored when a request
\* completes is that of the analysis started most recently.
C22_OneAnalysisAtATime ==
    []OneAnalysisRunning /\ [][NoStartWhileAnalyzing /\ StoredDataIsOfLatest]_vars

\* The POST of an analysis started from a padded URL awaits its response.
C22_Witness ==
    /\ isAnalyzing
    /\ analyzeInFlight # <<>>
    /\ repoUrl = UrlPadded
    /\ analyzeInFlight[1].repo = UrlPlain

\* completedSteps is a prefix of steps and currentStep is null or the first
\* step not completed.
ProgressWellFormed ==
    /\ IsPrefix(completedSteps, steps)
    /\ \/ currentStep = NoStep
       \/ /\ Len(completedSteps) < Len(steps)
          /\ currentStep = steps[Len(completedSteps) + 1]

\* completedSteps changes by one more step of steps, or is emptied.
StepsCompleteInOrder ==
    completedSteps' # completedSteps =>
        \/ completedSteps' = <<>>
        \/ /\ Len(completedSteps) < Len(steps)
           /\ completedSteps' = SubSeq(steps, 1, Len(completedSteps) + 1)

\* C23: in every state of the progress display completedSteps is a prefix of
\* [clone, analyze, docs], grown one step at a time in that order, and
\* currentStep is null or the first step not in completedSteps.
C23_ProgressInOrder == []ProgressWellFormed /\ [][StepsCompleteInOrder]_vars

\* Two steps are completed and the third is the current one.
C23_Witness ==
    /\ completedSteps = <<"clone", "analyze">>
    /\ currentStep = "docs"
    /\ isAnalyzing

\* The data is there exactly when all three steps are completed.
DataIffAllSteps == analysisData # <<>> <=> completedSteps = steps

\* A step in which analyzeRepo passes its checks clears the data and the error.
StartClears ==
    (analyzePc = "idle" /\ analyzePc' # "idle") =>
        (analysisData' = <<>> /\ error' = NoError /\ completedSteps' = <<>>)

\* A run ends with the data and all steps, or with the error and no step.
RunEndsCleanly ==
    (analyzePc # "idle" /\ analyzePc' = "idle") =>
        \/ /\ analysisData' # <<>>
           /\ completedSteps' = steps
           /\ currentStep' = NoStep
           /\ error' = NoError
        \/ /\ analysisData' = <<>>
           /\ completedSteps' = <<>>
           /\ currentStep' = NoStep
           /\ error' # NoError

\* C24: analysisData is non-null exactly when completedSteps holds all three
\* steps; a start clears the earlier data and error; a failed analysis leaves
\* no completed step, no current step, no data and an error message.
C24_ResultsOnlyWhenComplete ==
    []DataIffAllSteps /\ [][StartClears /\ RunEndsCleanly]_vars

\* What holds: data is there only with all three steps completed, a start
\* clears the earlier data and error, and a run that ends without all three
\* steps leaves no step, no data and an error message.
C24_DataOnlyWhenComplete ==
    /\ [](analysisData # <<>> => completedSteps = steps)
    /\ [][ /\ StartClears
           /\ (analyzePc # "idle" /\ analyzePc' = "idle" /\ completedSteps' # steps) =>
                 /\ completedSteps' = <<>>
                 /\ currentStep' = NoStep
                 /\ analysisData' = <<>>
                 /\ error' \in AnalysisErrors
         ]_vars

\* While the POST awaits its response 'clone' and 'analyze' are completed and
\* 'docs' is not; the back end holds a request of the App only after the POST.
PostAfterTwoSteps ==
    /\ analyzeInFlight # <<>> => completedSteps = <<"clone", "analyze">>
    /\ awaited # 0 => analyzeInFlight # <<>>

\* 'clone' and 'analyze' are completed by the timers: the POST is not sent
\* yet, no request of the App is at the back end and the step touches none.
TimersCompleteTwoSteps ==
    (completedSteps' # completedSteps
        /\ completedSteps' \in {<<"clone">>, <<"clone", "analyze">>}) =>
            /\ analyzeInFlight = <<>>
            /\ awaited = 0
            /\ UNCHANGED reqVars

\* 'docs' is completed by the back end's answer.
DocsWaitsForResponse ==
    (completedSteps' # completedSteps /\ completedSteps' = steps) =>
        /\ analyzeInFlight # <<>>
        /\ awaited # 0
        /\ Answered(awaited)

\* C25: POST /analyze is sent only once 'clone' and 'analyze' are marked
\* completed; the timers complete these two before the back end is contacted,
\* and only 'docs' waits for the back end's response.
C25_PostAfterTimedSteps ==
    []PostAfterTwoSteps /\ [][TimersCompleteTwoSteps /\ DocsWaitsForResponse]_vars

\* The back end is cloning for the App, whose 'clone' step is already completed.
C25_Witness ==
    /\ awaited # 0
    /\ requests[awaited].pc = "cloning"
    /\ completedSteps = <<"clone", "analyze">>
    /\ currentStep = "docs"

\* A step of analyzeRepo on an input it rejects: it is taken with a rejected
\* URL in the field and sets an error message.
RejectionStep ==
    /\ UrlRejected(repoUrl)
    /\ ~isAnalyzing
    /\ error' # NoError
    /\ error' # error

\* C26: an analyzeRepo that rejects its input (empty or invalid URL) sets the
\* error message of that rejection and changes nothing else: isAnalyzing,
\* completedSteps, currentStep and analysisData keep their values, the results
\* of an earlier analysis stay displayed, and nothing is sent.
C26_RejectionChangesOnlyError ==
    [][ /\ RejectionStep =>
            /\ error' = (IF Trim(repoUrl) = <<>> THEN EmptyUrlMsg ELSE InvalidUrlMsg)
            /\ UNCHANGED <<repoUrl, isAnalyzing, completedSteps, currentStep,
                           analysisData, analyzePc, trimmedUrl, analyzeInFlight,
                           activeTab, messages, input, isLoading, chatInFlight>>
        /\ (UrlRejected(repoUrl) /\ ~isAnalyzing /\ repoUrl' = repoUrl) =>
              UNCHANGED <<isAnalyzing, completedSteps, currentStep, analysisData>>
      ]_vars

\* A rejection is displayed over the results of an earlier analysis.
C26_Witness ==
    /\ error = InvalidUrlMsg
    /\ analysisData # <<>>
    /\ completedSteps = steps
    /\ ~isAnalyzing
    /\ activeTab # NoTab

(***************************************************************************)
(* Claims about the chat.                                                  *)
(***************************************************************************)
\* The POST /chat requests awaiting their response: the one of the mounted
\* Chat and those sent by Chat instances that have been unmounted since.
ChatRequestsAwaited == Len(chatInFlight) + chatOrphans

\* C27: at most one chat request is in flight at any time; a question is sent
\* only with a non-empty trimmed input while isLoading is false, and isLoading
\* is false again after every request, answered or failed.
C27_OneChatRequestInFlight ==
    /\ ChatRequestsAwaited <= 1
    /\ isLoading <=> chatInFlight # <<>>

\* What holds of one Chat instance: it has one request at most, and it is
\* loading exactly while that request awaits its response.
C27_OnePerChatInstance ==
    /\ Len(chatInFlight) <= 1
    /\ isLoading <=> chatInFlight # <<>>

\* The conversation alternates user and assistant messages from a user
\* message on; it ends with an assistant message unless a question is out.
Alternates ==
    /\ \A i \in 1..Len(messages) :
          messages[i].role = (IF i % 2 = 1 THEN "user" ELSE "assistant")
    /\ Len(messages) % 2 = (IF isLoading THEN 1 ELSE 0)

\* The request of the mounted Chat ends by one assistant message: the answer
\* or the fixed apology.
OneReplyPerQuestion ==
    (chatInFlight # <<>> /\ chatInFlight' = <<>> /\ activeTab' = "chat") =>
        /\ ~isLoading'
        /\ \E c \in Answers \cup {ApologyText} :
              messages' = Append(messages, [role |-> "assistant", content |-> c])

\* C28: the conversation alternates user and assistant messages, starting
\* with a user message; every question sent is followed by exactly one
\* assistant message, the back end's response or the fixed apology.
C28_ConversationAlternates == []Alternates /\ [][OneReplyPerQuestion]_vars

\* Two questions are completed, the first by the apology, the second by an answer.
C28_Witness ==
    /\ ~isLoading
    /\ Len(messages) = 4
    /\ messages[2].content = ApologyText
    /\ messages[4].content \in Answers

\* The failed exchanges of the conversation: the positions of the apologies.
Apologies(msgs) == {i \in 1..Len(msgs) : msgs[i].content = ApologyText}

\* The messages up to the last apology stay as they are in the conversation.
FailedExchangesKept ==
    \A i \in Apologies(messages) :
        Len(messages') >= i /\ SubSeq(messages', 1, i) = SubSeq(messages, 1, i)

\* A question is sent with every failed exchange so far in its history: the
\* unanswered question (a user message) and the apology after it.
SendCarriesFailedExchanges ==
    (chatInFlight = <<>> /\ chatInFlight' # <<>>) =>
        \A i \in Apologies(messages) :
            /\ Len(chatInFlight'[1].history) >= i
            /\ chatInFlight'[1].history[i] = [role |-> "assistant", content |-> ApologyText]
            /\ chatInFlight'[1].history[i - 1] = messages[i - 1]
            /\ messages[i - 1].role = "user"

\* C29: the apology of a failed request, once stored, is in the history
\* sent with every later question, together with the unanswered question.
C29_ApologyInEveryLaterHistory ==
    [][FailedExchangesKept /\ SendCarriesFailedExchanges]_vars

\* What the Chat keeps of a failed request: the apology is stored as an
\* assistant message and, with the unanswered question, is in the history of
\* every later question sent while the same Chat stays mounted.
C29_ApologyInHistoryWhileMounted ==
    [][ /\ (ChatMounted /\ ChatMounted') => FailedExchangesKept
        /\ SendCarriesFailedExchanges
      ]_vars

(***************************************************************************)
(* AIDetection and Report: the AI and human percentages displayed.         *)
(***************************************************************************)
\* The numbers an ai_detection object may carry in a percentage field.
Percentages == {0, 1, 30, 50, 70, 99, 100}

\* A field of the object: <<>> when missing, <<n>> when it holds n.
PercentFields == {<<>>} \cup {<<n>> : n \in Percentages}

\* The AI Detection tab renders the panel (with data; else a notice).
RenderAIDetection ==
    /\ ai_detection.present
    /\ aiPanel' = <<[ai |-> aiPercentage(ai_detection), human |-> humanPercentage(ai_detection)]>>
    /\ UNCHANGED <<repoFiles, filesBuilt, file_tree, dependencies, treeStats, reportStats,
                   ai_detection, aiReport>>
    /\ UNCHANGED nonFileVars

InitAI ==
    /\ AppInit /\ UrlIdle /\ GraphIdle /\ RequestsIdle /\ ExtractIdle /\ ServerUp
    /\ repoFiles = {}
    /\ filesBuilt = FALSE
    /\ file_tree = NoTree
    /\ dependencies = NoDepData
    /\ treeStats = <<>>
    /\ reportStats = <<>>
    /\ ai_detection \in [present : {TRUE}, ai_percentage : PercentFields,
                         human_percentage : PercentFields] \cup {NoDetection}
    /\ aiPanel = <<>>
    /\ aiReport = <<>>

NextAI == RenderAIDetection \/ RenderReport

SpecAI == InitAI /\ [][NextAI]_vars

\* human_percentage is missing or 0.
HumanMissing == ai_detection.human_percentage \in {<<>>, <<0>>}

\* C30: the AI Detection panel and the printed Report display the same AI
\* percentage and the same human percentage, and with human_percentage
\* missing or 0 the human percentage displayed is 100 minus the AI percentage
\* displayed.
C30_PanelAndReportAgree ==
    /\ (aiPanel # <<>> /\ aiReport # <<>>) => aiPanel = aiReport
    /\ (aiPanel # <<>> /\ HumanMissing) => aiPanel[1].human = 100 - aiPanel[1].ai
    /\ (aiReport # <<>> /\ HumanMissing) => aiReport[1].human = 100 - aiReport[1].ai

\* What holds: the two views show the same AI percentage, the same human
\* percentage when the object carries one that is not 0, and the panel's
\* fallback is 100 minus the AI percentage.
C30_AgreeWhenHumanGiven ==
    /\ (aiPanel # <<>> /\ aiReport # <<>>) => aiPanel[1].ai = aiReport[1].ai
    /\ (aiPanel # <<>> /\ aiReport # <<>> /\ ~HumanMissing) => aiPanel = aiReport
    /\ (aiPanel # <<>> /\ HumanMissing) => aiPanel[1].human = 100 - aiPanel[1].ai

====
